---- MODULE Spec2Model ----
(***************************************************************************)
(* Lognalizer: ingestion of log files into the logs table and the queries  *)
(* over it.  Text is modelled as a sequence of one-character strings, so   *)
(* that the regular expressions, strip(), upper() and the timestamp        *)
(* formatting of the source are computed and not assumed.                  *)
(***************************************************************************)
EXTENDS Integers, Sequences, FiniteSets, TLC

(***************************************************************************)
(* Characters and str helpers                                              *)
(***************************************************************************)
Digits == <<"0","1","2","3","4","5","6","7","8","9">>
LowerLetters == <<"a","b","c","d","e","f","g","h","i","j","k","l","m","n","o","p","q","r","s","t","u","v","w","x","y","z">>
UpperLetters == <<"A","B","C","D","E","F","G","H","I","J","K","L","M","N","O","P","Q","R","S","T","U","V","W","X","Y","Z">>

Range(s) == {s[i] : i \in DOMAIN s}

\* \d
IsDigit(c) == c \in Range(Digits)
\* [A-Za-z]
IsAlpha(c) == c \in Range(LowerLetters) \cup Range(UpperLetters)
\* \w
IsWord(c) == IsDigit(c) \/ IsAlpha(c) \/ c = "_"
\* \s, and the characters str.strip() removes
IsSpace(c) == c \in {" ", "\t", "\n", "\r"}

\* int() of one digit
DigitVal(c) == (CHOOSE i \in DOMAIN Digits : Digits[i] = c) - 1

\* str.upper() / str.lower() on one character
UpperChar(c) ==
    IF c \in Range(LowerLetters)
    THEN UpperLetters[CHOOSE i \in DOMAIN LowerLetters : LowerLetters[i] = c]
    ELSE c
LowerChar(c) ==
    IF c \in Range(UpperLetters)
    THEN LowerLetters[CHOOSE i \in DOMAIN UpperLetters : UpperLetters[i] = c]
    ELSE c
Upper(s) == [i \in DOMAIN s |-> UpperChar(s[i])]
Lower(s) == [i \in DOMAIN s |-> LowerChar(s[i])]

\* s[a-1:b-1] of Python, 1-based and inclusive here; empty when a > b
Slice(s, a, b) == IF a > b THEN <<>> ELSE SubSeq(s, a, b)
\* s[a-1:]
From(s, a) == Slice(s, a, Len(s))

\* int() of a run of digits
RECURSIVE ToInt(_)
ToInt(s) ==
    IF s = <<>> THEN 0
    ELSE 10 * ToInt(Slice(s, 1, Len(s) - 1)) + DigitVal(s[Len(s)])

\* format(n, "0<w>d"): at least w digits, zero padded
RECURSIVE Pad(_, _)
Pad(n, w) ==
    IF w <= 1 /\ n < 10 THEN <<Digits[n + 1]>>
    ELSE Pad(n \div 10, w - 1) \o <<Digits[(n % 10) + 1]>>

\* number of leading / trailing characters strip() removes
RECURSIVE LeadSpaces(_)
LeadSpaces(s) ==
    IF s # <<>> /\ IsSpace(s[1]) THEN 1 + LeadSpaces(Tail(s)) ELSE 0
RECURSIVE TrailSpaces(_)
TrailSpaces(s) ==
    IF s # <<>> /\ IsSpace(s[Len(s)])
    THEN 1 + TrailSpaces(Slice(s, 1, Len(s) - 1)) ELSE 0

\* str.strip()
Strip(s) ==
    IF LeadSpaces(s) = Len(s) THEN <<>>
    ELSE Slice(s, LeadSpaces(s) + 1, Len(s) - TrailSpaces(s))

\* str.rstrip("\n")
RECURSIVE RStripNL(_)
RStripNL(s) ==
    IF s # <<>> /\ s[Len(s)] = "\n" THEN RStripNL(Slice(s, 1, Len(s) - 1)) ELSE s

\* sub occurs in s at position i
MatchAt(s, sub, i) ==
    /\ i >= 1
    /\ i + Len(sub) - 1 <= Len(s)
    /\ \A k \in 1..Len(sub) : s[i + k - 1] = sub[k]

\* `sub in s`
Contains(s, sub) == \E i \in 1..(Len(s) + 1) : MatchAt(s, sub, i)

\* str.find(sub), 1-based; 0 when absent (Python: -1)
Find(s, sub) ==
    IF Contains(s, sub)
    THEN CHOOSE i \in 1..(Len(s) + 1) :
            /\ MatchAt(s, sub, i)
            /\ \A j \in 1..(i - 1) : ~MatchAt(s, sub, j)
    ELSE 0

\* all of s[a..b] exist and are digits
AllDigits(s, a, b) == b <= Len(s) /\ \A k \in a..b : IsDigit(s[k])

\* length of the run of characters satisfying a class, starting at position i
RECURSIVE DigitRun(_, _)
DigitRun(s, i) == IF i <= Len(s) /\ IsDigit(s[i]) THEN 1 + DigitRun(s, i + 1) ELSE 0
RECURSIVE SpaceRun(_, _)
SpaceRun(s, i) == IF i <= Len(s) /\ IsSpace(s[i]) THEN 1 + SpaceRun(s, i + 1) ELSE 0

(***************************************************************************)
(* datetime                                                                *)
(***************************************************************************)
\* A datetime value: fields of datetime.datetime
DateTime(Y, M, D, h, m, s, us) ==
    [year |-> Y, month |-> M, day |-> D, hour |-> h, minute |-> m, second |-> s,
     microsecond |-> us]

IsLeap(Y) == (Y % 4 = 0 /\ Y % 100 # 0) \/ Y % 400 = 0
DaysInMonth(Y, M) ==
    IF M = 2 THEN (IF IsLeap(Y) THEN 29 ELSE 28)
    ELSE IF M \in {4, 6, 9, 11} THEN 30 ELSE 31

\* datetime(Y, M, D, h, m, s) raises ValueError unless this holds
ValidDateTime(Y, M, D, h, m, s) ==
    /\ Y \in 1..9999
    /\ M \in 1..12
    /\ D \in 1..DaysInMonth(Y, M)
    /\ h \in 0..23
    /\ m \in 0..59
    /\ s \in 0..59

\* strftime("%Y-%m-%d %H:%M:%S") for years of four digits
Strftime(dt) ==
    Pad(dt.year, 4) \o <<"-">> \o Pad(dt.month, 2) \o <<"-">> \o Pad(dt.day, 2)
    \o <<" ">> \o Pad(dt.hour, 2) \o <<":">> \o Pad(dt.minute, 2) \o <<":">>
    \o Pad(dt.second, 2)

\* datetime.isoformat(sep=" "): the microseconds are printed when they are not 0
IsoFormat(dt) ==
    Strftime(dt) \o
    (IF dt.microsecond = 0 THEN <<>> ELSE <<".">> \o Pad(dt.microsecond, 6))

\* The instants datetime.now() / datetime.utcnow() may return during a run
Clock ==
    { DateTime(2025, 11, 27, 9, 5, 7, 0), DateTime(2025, 11, 27, 9, 5, 7, 40506) }

\* The value None / SQL NULL of an optional text field (no text equals it)
NULL == <<"NULL">>

\* What a parser returns when it declines a line (Python: None)
None == [kind |-> "None"]
\* What a parser call yields when it raises ValueError
RaisedValueError == [kind |-> "ValueError"]

(***************************************************************************)
(* src/parser_linux.py                                                     *)
(***************************************************************************)
MONTHS ==
    << <<"J","a","n">>, <<"F","e","b">>, <<"M","a","r">>, <<"A","p","r">>,
       <<"M","a","y">>, <<"J","u","n">>, <<"J","u","l">>, <<"A","u","g">>,
       <<"S","e","p">>, <<"O","c","t">>, <<"N","o","v">>, <<"D","e","c">> >>

\* MONTHS.get(name, default)
MonthsGet(name, default) ==
    IF \E i \in DOMAIN MONTHS : MONTHS[i] = name
    THEN CHOOSE i \in DOMAIN MONTHS : MONTHS[i] = name
    ELSE default

\* dd:dd:dd at position i
TimeShapeAt(s, i) ==
    /\ i + 7 <= Len(s)
    /\ AllDigits(s, i, i + 1) /\ s[i + 2] = ":"
    /\ AllDigits(s, i + 3, i + 4) /\ s[i + 5] = ":"
    /\ AllDigits(s, i + 6, i + 7)

\* length of the run of [\w\.\-] starting at position i
RECURSIVE HostRun(_, _)
HostRun(s, i) ==
    IF i <= Len(s) /\ (IsWord(s[i]) \/ s[i] \in {".", "-"})
    THEN 1 + HostRun(s, i + 1) ELSE 0

\* SYSLOG_REGEX.match(line): the groups, or matched = FALSE
SYSLOG_REGEX(line) ==
    LET ws1  == SpaceRun(line, 4)
        d0   == 4 + ws1
        dn   == DigitRun(line, d0)
        ws2  == SpaceRun(line, d0 + dn)
        t0   == d0 + dn + ws2
        ws3  == SpaceRun(line, t0 + 8)
        h0   == t0 + 8 + ws3
        hn   == HostRun(line, h0)
        ws4  == SpaceRun(line, h0 + hn)
    IN  IF /\ Len(line) >= 3
           /\ \A k \in 1..3 : IsWord(line[k])
           /\ ws1 >= 1
           /\ dn \in {1, 2}
           /\ ws2 >= 1
           /\ TimeShapeAt(line, t0)
           /\ ws3 >= 1
           /\ hn >= 1
           /\ ws4 >= 1
        THEN [matched |-> TRUE,
              month |-> Slice(line, 1, 3),
              day   |-> Slice(line, d0, d0 + dn - 1),
              time  |-> Slice(line, t0, t0 + 7),
              host  |-> Slice(line, h0, h0 + hn - 1),
              rest  |-> From(line, h0 + hn + ws4)]
        ELSE [matched |-> FALSE]

\* guess_level of parser_linux with the keyword tests of the Zabbix parsers,
\* where FAILED and UNABLE mean ERROR
guess_level_linux_failed(msg) ==
    LET up == Upper(msg)
    IN  IF Contains(up, <<"F","A","T","A","L">>) \/ Contains(up, <<"C","R","I","T","I","C","A","L">>)
        THEN "CRITICAL"
        ELSE IF \/ Contains(up, <<"E","R","R","O","R">>)
                \/ Contains(up, <<"F","A","I","L","E","D">>)
                \/ Contains(up, <<"U","N","A","B","L","E">>)
        THEN "ERROR"
        ELSE IF Contains(up, <<"W","A","R","N">>)
        THEN "WARN"
        ELSE "INFO"

\* guess_level of parser_linux
guess_level_linux(msg) ==
    LET up == Upper(msg)
    IN  IF Contains(up, <<"C","R","I","T">>) \/ Contains(up, <<"F","A","T","A","L">>)
        THEN "CRITICAL"
        ELSE IF Contains(up, <<"E","R","R","O","R">>) \/ Contains(up, <<" ","E","R","R"," ">>)
        THEN "ERROR"
        ELSE IF Contains(up, <<"W","A","R","N">>)
        THEN "WARN"
        ELSE "INFO"

\* parse_syslog_line(line, year); year = 0 stands for None; now is the value
\* datetime.now() returns
parse_syslog_line(line, year, now) ==
    LET m == SYSLOG_REGEX(line)
    IN  IF ~m.matched THEN None
        ELSE
          LET y     == IF year # 0 THEN year ELSE now.year
              month == MonthsGet(m.month, now.month)
              day   == ToInt(m.day)
              hh    == ToInt(Slice(m.time, 1, 2))
              mm    == ToInt(Slice(m.time, 4, 5))
              ss    == ToInt(Slice(m.time, 7, 8))
              rest  == Strip(m.rest)
          IN  \* strptime("%Y-%m-%d %H:%M:%S"): %Y takes exactly four digits
              IF ~(y >= 1000 /\ ValidDateTime(y, month, day, hh, mm, ss))
              THEN RaisedValueError
              ELSE [kind      |-> "record",
                    timestamp |-> IsoFormat(DateTime(y, month, day, hh, mm, ss, 0)),
                    source    |-> "syslog",
                    level     |-> guess_level_linux(rest),
                    host      |-> m.host,
                    message   |-> rest]

(***************************************************************************)
(* src/parser_zabbix_server.py                                             *)
(***************************************************************************)
\* ZBX_SERVER_REGEX.match(line): the groups, or matched = FALSE
ZBX_SERVER_REGEX(line) ==
    LET p0  == 1 + SpaceRun(line, 1)
        pn  == DigitRun(line, p0)
        d0  == p0 + pn + 1
        t0  == d0 + 9
        f0  == t0 + 6
        fn  == IF f0 <= Len(line) /\ line[f0] = "." THEN DigitRun(line, f0 + 1) ELSE 0
        c0  == IF fn >= 1 THEN f0 + 1 + fn ELSE f0
        ws  == SpaceRun(line, c0 + 1)
    IN  IF /\ pn >= 1
           /\ p0 + pn <= Len(line) /\ line[p0 + pn] = ":"
           /\ DigitRun(line, d0) = 8
           /\ d0 + 8 <= Len(line) /\ line[d0 + 8] = ":"
           /\ DigitRun(line, t0) = 6
           /\ c0 <= Len(line) /\ line[c0] = ":"
        THEN [matched |-> TRUE,
              date |-> Slice(line, d0, d0 + 7),
              time |-> Slice(line, t0, t0 + 5),
              msg  |-> From(line, c0 + 1 + ws)]
        ELSE [matched |-> FALSE]

\* guess_level of parser_zabbix_server
guess_level_zabbix(msg) ==
    LET up == Upper(msg)
    IN  IF Contains(up, <<"F","A","T","A","L">>) \/ Contains(up, <<"C","R","I","T","I","C","A","L">>)
        THEN "CRITICAL"
        ELSE IF \/ Contains(up, <<"E","R","R","O","R">>)
                \/ Contains(up, <<"F","A","I","L","E","D">>)
                \/ Contains(up, <<"U","N","A","B","L","E">>)
        THEN "ERROR"
        ELSE IF Contains(up, <<"W","A","R","N">>) \/ Contains(up, <<"W","A","R","N","I","N","G">>)
        THEN "WARN"
        ELSE IF Contains(up, <<"D","E","B","U","G">>)
        THEN "DEBUG"
        ELSE "INFO"

\* The fallback of parse_zabbix_server_line declining the line, as parse_syslog_line does
ZbxServerRawNone(ln, host, now) == None

\* The fallback of parse_zabbix_server_line: ln is the line without its newline
ZbxServerRaw(ln, host, now) ==
    [kind      |-> "record",
     timestamp |-> IsoFormat(now),
     source    |-> "zabbix_server_raw",
     level     |-> guess_level_zabbix(Strip(ln)),
     host      |-> host,
     message   |-> Strip(ln)]

\* parse_zabbix_server_line(line, host); now is the value datetime.now() returns
parse_zabbix_server_line(line, host, now) ==
    LET ln == RStripNL(line)
        m  == ZBX_SERVER_REGEX(ln)
    IN  IF m.matched
        THEN LET msg    == Strip(m.msg)
                 year   == ToInt(Slice(m.date, 1, 4))
                 month  == ToInt(Slice(m.date, 5, 6))
                 day    == ToInt(Slice(m.date, 7, 8))
                 hour   == ToInt(Slice(m.time, 1, 2))
                 minute == ToInt(Slice(m.time, 3, 4))
                 second == ToInt(Slice(m.time, 5, 6))
             IN  IF ~ValidDateTime(year, month, day, hour, minute, second)
                 THEN RaisedValueError
                 ELSE [kind      |-> "record",
                       timestamp |-> IsoFormat(DateTime(year, month, day, hour, minute, second, 0)),
                       source    |-> "zabbix_server",
                       level     |-> guess_level_zabbix(msg),
                       host      |-> host,
                       message   |-> msg]
        ELSE ZbxServerRaw(ln, host, now)

(***************************************************************************)
(* src/parser_zabbix_proxy.py                                              *)
(***************************************************************************)
\* ZBX_PROXY_REGEX.match(line): the pattern text is that of ZBX_SERVER_REGEX
ZBX_PROXY_REGEX(line) == ZBX_SERVER_REGEX(line)

\* guess_level of parser_zabbix_proxy: the same keyword tests as the server's
guess_level_zabbix_proxy(msg) == guess_level_zabbix(msg)

\* parse_zabbix_proxy_line(line, host); now is the value datetime.now() returns
parse_zabbix_proxy_line(line, host, now) ==
    LET ln == RStripNL(line)
        m  == ZBX_PROXY_REGEX(ln)
    IN  IF m.matched
        THEN LET msg    == Strip(m.msg)
                 year   == ToInt(Slice(m.date, 1, 4))
                 month  == ToInt(Slice(m.date, 5, 6))
                 day    == ToInt(Slice(m.date, 7, 8))
                 hour   == ToInt(Slice(m.time, 1, 2))
                 minute == ToInt(Slice(m.time, 3, 4))
                 second == ToInt(Slice(m.time, 5, 6))
             IN  IF ~ValidDateTime(year, month, day, hour, minute, second)
                 THEN RaisedValueError
                 ELSE [kind      |-> "record",
                       timestamp |-> IsoFormat(DateTime(year, month, day, hour, minute, second, 0)),
                       source    |-> "zabbix_proxy",
                       level     |-> guess_level_zabbix_proxy(msg),
                       host      |-> host,
                       message   |-> msg]
        ELSE [kind      |-> "record",
              timestamp |-> IsoFormat(now),
              source    |-> "zabbix_proxy_raw",
              level     |-> guess_level_zabbix_proxy(Strip(ln)),
              host      |-> host,
              message   |-> Strip(ln)]

(***************************************************************************)
(* src/models.py: parse_php_error_line                                     *)
(***************************************************************************)
\* position of the first "]" at or after i; 0 when there is none
FirstBracket(s, i) ==
    IF \E k \in i..Len(s) : s[k] = "]"
    THEN CHOOSE k \in i..Len(s) : s[k] = "]" /\ \A q \in i..(k - 1) : s[q] # "]"
    ELSE 0

\* the alternatives of php_level, in the order of the pattern
PhpLevels ==
    << <<"N","o","t","i","c","e">>, <<"W","a","r","n","i","n","g">>, <<"F","a","t","a","l"," ","e","r","r","o","r">>, <<"P","a","r","s","e"," ","e","r","r","o","r">>, <<"D","e","p","r","e","c","a","t","e","d">>, <<"E","r","r","o","r">> >>

\* sub occurs in s at position i, ignoring case (re.IGNORECASE)
MatchAtNoCase(s, sub, i) == MatchAt(Lower(s), Lower(sub), i)

\* length of the php_level alternative matched at l0 and followed by ":"; the
\* first alternative of the pattern that matches is taken; 0 when none does
PhpLevelLen(line, l0) ==
    LET lv == {k \in DOMAIN PhpLevels :
                  /\ MatchAtNoCase(line, PhpLevels[k], l0)
                  /\ MatchAt(line, <<":">>, l0 + Len(PhpLevels[k]))}
    IN  IF lv = {} THEN 0
        ELSE Len(PhpLevels[CHOOSE k \in lv : \A j \in lv : k <= j])

\* the groups of _php_error_pattern, given where its parts lie: the time at t0,
\* the "]" at b, "PHP" at p0, the level of length ln at l0, the rest at r0
PhpGroups(line, t0, b, p0, l0, ln, r0) ==
    IF /\ Len(line) >= 13
       /\ line[1] = "["
       /\ AllDigits(line, 2, 3) /\ line[4] = "-"
       /\ \A k \in 5..7 : IsAlpha(line[k])
       /\ line[8] = "-" /\ AllDigits(line, 9, 12)
       /\ t0 >= 14
       /\ TimeShapeAt(line, t0)
       /\ t0 + 8 <= Len(line) /\ IsSpace(line[t0 + 8])
       /\ b >= t0 + 10
       /\ p0 >= b + 2
       /\ MatchAtNoCase(line, <<"P","H","P">>, p0)
       /\ l0 >= p0 + 4
       /\ ln >= 1
       /\ r0 >= l0 + ln + 2
    THEN [matched   |-> TRUE,
          ts        |-> Slice(line, 2, t0 + 7),
          php_level |-> Slice(line, l0, l0 + ln - 1),
          rest      |-> From(line, r0)]
    ELSE [matched |-> FALSE]

\* the parts of _php_error_pattern from left to right, each found after the
\* one before it
PhpAtLevel(line, t0, b, p0, l0, ln) ==
    PhpGroups(line, t0, b, p0, l0, ln, l0 + ln + 1 + SpaceRun(line, l0 + ln + 1))
PhpAtPhp(line, t0, b, p0, l0) ==
    PhpAtLevel(line, t0, b, p0, l0, PhpLevelLen(line, l0))
PhpAtBracket(line, t0, b, p0) ==
    PhpAtPhp(line, t0, b, p0, p0 + 3 + SpaceRun(line, p0 + 3))
PhpAtTime(line, t0, b) ==
    PhpAtBracket(line, t0, b, b + 1 + SpaceRun(line, b + 1))

\* _php_error_pattern.match(line): the groups, or matched = FALSE
PhpFromTime(line, t0) == PhpAtTime(line, t0, FirstBracket(line, t0 + 8))
php_error_pattern(line) == PhpFromTime(line, 13 + SpaceRun(line, 13))

\* datetime.strptime(ts_str, "%d-%b-%Y %H:%M:%S").strftime("%Y-%m-%d %H:%M:%S"),
\* or datetime_utc_now() on ValueError; utcnow is the value datetime.utcnow() returns
PhpTimestamp(ts, utcnow) ==
    LET day   == ToInt(Slice(ts, 1, 2))
        mon3  == Slice(ts, 4, 6)
        \* %b compares month abbreviations ignoring case
        mset  == {i \in DOMAIN MONTHS : Lower(MONTHS[i]) = Lower(mon3)}
        year  == ToInt(Slice(ts, 8, 11))
        t0    == 12 + SpaceRun(ts, 12)
        hh    == ToInt(Slice(ts, t0, t0 + 1))
        mm    == ToInt(Slice(ts, t0 + 3, t0 + 4))
        ss    == ToInt(Slice(ts, t0 + 6, t0 + 7))
    IN  IF mset # {} /\ ValidDateTime(year, CHOOSE i \in mset : TRUE, day, hh, mm, ss)
        THEN Strftime(DateTime(year, CHOOSE i \in mset : TRUE, day, hh, mm, ss, 0))
        ELSE Strftime(utcnow)

\* \d{1,3} at i: the number of digits taken, at most three; 0 when there is none
Octet(s, i) ==
    IF i <= Len(s) /\ IsDigit(s[i])
    THEN (IF AllDigits(s, i, i + 2) THEN 3 ELSE IF AllDigits(s, i, i + 1) THEN 2 ELSE 1)
    ELSE 0

\* the groups of (\d{1,3}(?:\.\d{1,3}){3})\s+port\s+(\d+) matched at i, given
\* where the octets end (e1..e4), where "port" lies (p0) and the digits (g0, gn)
IpPortGroups(s, i, e1, e2, e3, e4, p0, g0, gn) ==
    IF /\ e1 > i /\ MatchAt(s, <<".">>, e1)
       /\ e2 > e1 + 1 /\ MatchAt(s, <<".">>, e2)
       /\ e3 > e2 + 1 /\ MatchAt(s, <<".">>, e3)
       /\ e4 > e3 + 1
       /\ p0 > e4
       /\ MatchAtNoCase(s, <<"p","o","r","t">>, p0)
       /\ g0 > p0 + 4
       /\ gn >= 1
    THEN [matched |-> TRUE,
          ip   |-> Slice(s, i, e4 - 1),
          port |-> Slice(s, g0, g0 + gn - 1)]
    ELSE [matched |-> FALSE]

\* the parts of the ip/port pattern from left to right
IpPortAtDigits(s, i, e1, e2, e3, e4, p0, g0) ==
    IpPortGroups(s, i, e1, e2, e3, e4, p0, g0, DigitRun(s, g0))
IpPortAtPort(s, i, e1, e2, e3, e4, p0) ==
    IpPortAtDigits(s, i, e1, e2, e3, e4, p0, p0 + 4 + SpaceRun(s, p0 + 4))
IpPortAt4(s, i, e1, e2, e3, e4) ==
    IpPortAtPort(s, i, e1, e2, e3, e4, e4 + SpaceRun(s, e4))
IpPortAt3(s, i, e1, e2, e3) ==
    IpPortAt4(s, i, e1, e2, e3, e3 + 1 + Octet(s, e3 + 1))
IpPortAt2(s, i, e1, e2) == IpPortAt3(s, i, e1, e2, e2 + 1 + Octet(s, e2 + 1))
IpPortAt1(s, i, e1) == IpPortAt2(s, i, e1, e1 + 1 + Octet(s, e1 + 1))

\* the ip/port pattern matched at position i: the groups, or matched = FALSE
IpPortAt(s, i) == IpPortAt1(s, i, i + Octet(s, i))

\* the leftmost position where the ip/port pattern matches; 0 when there is none
IpPortStart(s) ==
    IF \E i \in 1..Len(s) : IpPortAt(s, i).matched
    THEN CHOOSE i \in 1..Len(s) :
            IpPortAt(s, i).matched /\ \A j \in 1..(i - 1) : ~IpPortAt(s, j).matched
    ELSE 0

\* re.search of the ip/port pattern: the leftmost match
IpPortSearch(s) ==
    IF IpPortStart(s) = 0 THEN [matched |-> FALSE] ELSE IpPortAt(s, IpPortStart(s))

\* position of the last ":" of s; 0 when there is none
LastColon(s) ==
    IF \E k \in DOMAIN s : s[k] = ":"
    THEN CHOOSE k \in DOMAIN s : s[k] = ":" /\ \A q \in (k + 1)..Len(s) : s[q] # ":"
    ELSE 0

\* re.search(r":\s*([^:]+)$", msg_main): group(1).strip(), or the default
HumanReason(msg_main) ==
    LET j == LastColon(msg_main)
    IN  IF j = 0 \/ j = Len(msg_main)
        THEN <<"E","r","r","o"," ","d","e"," ","c","o","n","e","x","a","o">>
        ELSE Strip(From(msg_main, j + 1))

\* PhpLevel with a notice mapped to INFO
PhpLevelNoticeInfo(php_level) ==
    LET lvl == Lower(php_level)
    IN  IF Contains(lvl, <<"f","a","t","a","l">>) \/ Contains(lvl, <<"e","r","r","o","r">>) THEN "ERROR"
        ELSE IF Contains(lvl, <<"w","a","r","n","i","n","g">>) THEN "WARNING"
        ELSE "INFO"

\* the level parse_php_error_line derives from the php_level group
PhpLevel(php_level) ==
    LET lvl == Lower(php_level)
    IN  IF Contains(lvl, <<"f","a","t","a","l">>) \/ Contains(lvl, <<"e","r","r","o","r">>) THEN "ERROR"
        ELSE IF Contains(lvl, <<"w","a","r","n","i","n","g">>) THEN "WARNING"
        ELSE IF Contains(lvl, <<"n","o","t","i","c","e">>) THEN "WARNING"
        ELSE "INFO"

\* MsgMain with the " in " looked for in rest itself, letter case kept
MsgMainCaseSensitive(rest) ==
    IF Find(rest, <<" ","i","n"," ">>) # 0
    THEN Strip(Slice(rest, 1, Find(rest, <<" ","i","n"," ">>) - 1))
    ELSE rest

\* msg_main: rest up to the first " in " of rest.lower(), stripped; else rest
MsgMain(rest) ==
    IF Find(Lower(rest), <<" ","i","n"," ">>) # 0
    THEN Strip(Slice(rest, 1, Find(Lower(rest), <<" ","i","n"," ">>) - 1))
    ELSE rest

\* the dict parse_php_error_line returns, given the stripped rest, the ip/port
\* match ipm, msg_main and whether the error is classified as network
PhpRecord(ts, php_level, rest, ipm, msg_main, network, utcnow) ==
    [kind         |-> "record",
     timestamp    |-> PhpTimestamp(ts, utcnow),
     level        |-> PhpLevel(php_level),
     message      |-> rest,
     cause_group  |-> IF network THEN <<"n","e","t","w","o","r","k">> ELSE <<"a","p","l","i","c","a","c","a","o">>,
     cause_reason |->
         IF network /\ ipm.matched
         THEN <<"c","U","R","L"," ","f","a","l","h","o","u"," ","a","o"," ","c","o","n","e","c","t","a","r"," ","e","m"," ">> \o ipm.ip \o <<":">> \o ipm.port
              \o <<" ", "(">> \o HumanReason(msg_main) \o <<")">>
         ELSE msg_main,
     cause_action |->
         IF network /\ ipm.matched
         THEN <<"V","e","r","i","f","i","c","a","r"," ","s","e","r","v","i","c","o","/","p","o","r","t","a"," ">> \o ipm.port \o <<" ","e","m"," ">> \o ipm.ip
              \o <<" ","(","c","o","n","t","r","o","l","l","e","r"," ","/"," ","b","a","c","k","e","n","d",")"," ","o","u"," ","r","e","g","r","a","s"," ","d","e"," ","f","i","r","e","w","a","l","l">>
         ELSE IF network
         THEN <<"V","e","r","i","f","i","c","a","r"," ","c","o","n","e","c","t","i","v","i","d","a","d","e"," ","d","e"," ","r","e","d","e","/","s","e","r","v","i","c","o"," ","r","e","f","e","r","e","n","c","i","a","d","o"," ","p","e","l","o"," ","c","U","R","L">>
         ELSE <<"A","v","a","l","i","a","r"," ","s","t","a","c","k"," ","t","r","a","c","e"," ","e"," ","c","o","r","r","i","g","i","r"," ","c","a","u","s","a"," ","r","a","i","z"," ","n","o"," ","c","o","d","i","g","o"," ","P","H","P">>]

\* is_network: "curl error" in rest.lower(), or the ip/port pattern found
PhpClassified(ts, php_level, rest, ipm, utcnow) ==
    PhpRecord(ts, php_level, rest, ipm, MsgMain(rest),
              Contains(Lower(rest), <<"c","u","r","l"," ","e","r","r","o","r">>) \/ ipm.matched,
              utcnow)

\* the body of parse_php_error_line after the match m of _php_error_pattern
PhpParsed(m, rest, utcnow) ==
    PhpClassified(m.ts, m.php_level, rest, IpPortSearch(rest), utcnow)
PhpMatched(m, utcnow) ==
    IF ~m.matched THEN None ELSE PhpParsed(m, Strip(m.rest), utcnow)

\* parse_php_error_line(line); utcnow is the value datetime.utcnow() returns.
\* (The accented letters of the Portuguese texts are written unaccented.)
parse_php_error_line(line, utcnow) == PhpMatched(php_error_pattern(line), utcnow)

(***************************************************************************)
(* src/models.py: the generic parser inside ingest_plaintext_log           *)
(***************************************************************************)
\* ts_regex.match(line): ^(\d{4}-\d{2}-\d{2}[ T]\d{2}:\d{2}:\d{2})
ts_regex(line) ==
    /\ Len(line) >= 19
    /\ AllDigits(line, 1, 4) /\ line[5] = "-"
    /\ AllDigits(line, 6, 7) /\ line[8] = "-"
    /\ AllDigits(line, 9, 10)
    /\ line[11] \in {" ", "T"}
    /\ TimeShapeAt(line, 12)

\* re.search(r"\bKW\b", line, re.IGNORECASE) for a keyword made of word characters
WordSearch(line, kw) ==
    \E i \in 1..Len(line) :
        /\ MatchAtNoCase(line, kw, i)
        /\ (i = 1 \/ ~IsWord(line[i - 1]))
        /\ (i + Len(kw) - 1 = Len(line) \/ ~IsWord(line[i + Len(kw)]))

\* level_patterns, in the insertion order of the dict; WARNING is \bWARN(ING)?\b
level_patterns ==
    << [lvl |-> "ERROR",    words |-> { <<"E","R","R","O","R">> }],
       [lvl |-> "WARNING",  words |-> { <<"W","A","R","N">>, <<"W","A","R","N","I","N","G">> }],
       [lvl |-> "INFO",     words |-> { <<"I","N","F","O">> }],
       [lvl |-> "CRITICAL", words |-> { <<"C","R","I","T","I","C","A","L">> }],
       [lvl |-> "NOTICE",   words |-> { <<"N","O","T","I","C","E">> }] >>

\* GenericLevel with a default of UNKNOWN when no pattern is found
GenericLevelUnknown(line) ==
    LET hits == {k \in DOMAIN level_patterns :
                    \E w \in level_patterns[k].words : WordSearch(line, w)}
    IN  IF hits = {} THEN "UNKNOWN"
        ELSE level_patterns[CHOOSE k \in hits : \A j \in hits : k <= j].lvl

\* the loop over level_patterns.items(): the first pattern found, else INFO
GenericLevel(line) ==
    LET hits == {k \in DOMAIN level_patterns :
                    \E w \in level_patterns[k].words : WordSearch(line, w)}
    IN  IF hits = {} THEN "INFO"
        ELSE level_patterns[CHOOSE k \in hits : \A j \in hits : k <= j].lvl

\* A row of the logs table
Row(timestamp, source, level, host, message, cause_group, cause_reason, cause_action) ==
    [timestamp |-> timestamp, source |-> source, level |-> level, host |-> host,
     message |-> message, cause_group |-> cause_group, cause_reason |-> cause_reason,
     cause_action |-> cause_action]

\* PlaintextRowOf with an INSERT that leaves cause_action out
PlaintextRowOfNoAction(php, line, source, default_host, utcnow) ==
    IF php # None
    THEN Row(php.timestamp, source, php.level, default_host, php.message,
             php.cause_group, php.cause_reason, NULL)
    ELSE Row(IF ts_regex(line) THEN Slice(line, 1, 19) ELSE Strftime(utcnow),
             source,
             GenericLevel(line),
             default_host,
             IF ts_regex(line) THEN Strip(From(line, 20)) ELSE line,
             NULL, NULL, NULL)

\* The row ingest_plaintext_log inserts for a line, php being what
\* parse_php_error_line returned for it
PlaintextRowOf(php, line, source, default_host, utcnow) ==
    IF php # None
    THEN Row(php.timestamp, source, php.level, default_host, php.message,
             php.cause_group, php.cause_reason, php.cause_action)
    ELSE Row(IF ts_regex(line) THEN Slice(line, 1, 19) ELSE Strftime(utcnow),
             source,
             GenericLevel(line),
             default_host,
             IF ts_regex(line) THEN Strip(From(line, 20)) ELSE line,
             NULL, NULL, NULL)

\* The row ingest_plaintext_log inserts for one stripped, non-empty line
PlaintextRow(line, source, default_host, utcnow) ==
    PlaintextRowOf(parse_php_error_line(line, utcnow), line, source, default_host, utcnow)

(***************************************************************************)
(* src/cli.py: the ingestors of the command line                           *)
(***************************************************************************)
\* _guess_level_from_line
guess_level_from_line(line) ==
    LET upper == Upper(line)
    IN  IF Contains(upper, <<" ","C","R","I","T","I","C","A","L"," ">>) THEN "CRITICAL"
        ELSE IF Contains(upper, <<" ","E","R","R","O","R"," ">>) THEN "ERROR"
        ELSE "INFO"

\* _now_str(); now is the value datetime.now() returns
now_str(now) == Strftime(now)

(***************************************************************************)
(* SQLite: comparison of TEXT values, LIKE, ORDER BY, LIMIT                *)
(***************************************************************************)
\* The printable ASCII characters in code order, from code 32
Ascii ==
    <<" ","!","\"","#","$","%","&","'","(",")","*","+",",","-",".","/","0","1","2","3","4","5","6","7","8","9",":",";","<","=",">","?","@","A","B","C","D","E","F","G","H","I","J","K","L","M","N","O","P","Q","R","S","T","U","V","W","X","Y","Z","[","\\","]","^","_">>
\* and from code 97 (code 96, the grave accent, is not used)
AsciiFrom97 ==
    <<"a","b","c","d","e","f","g","h","i","j","k","l","m","n","o","p","q","r","s","t","u","v","w","x","y","z","{","|","}","~">>

\* The code of a character (the control characters of IsSpace come first)
Code(c) ==
    IF c = "\t" THEN 9 ELSE IF c = "\n" THEN 10 ELSE IF c = "\r" THEN 13
    ELSE IF c \in Range(Ascii) THEN 31 + (CHOOSE i \in DOMAIN Ascii : Ascii[i] = c)
    ELSE 96 + (CHOOSE i \in DOMAIN AsciiFrom97 : AsciiFrom97[i] = c)

\* a < b as TEXT under the BINARY collation
RECURSIVE TextLessAt(_, _, _)
TextLessAt(a, b, i) ==
    IF i > Len(b) THEN FALSE
    ELSE IF i > Len(a) THEN TRUE
    ELSE IF a[i] = b[i] THEN TextLessAt(a, b, i + 1)
    ELSE Code(a[i]) < Code(b[i])
TextLess(a, b) == TextLessAt(a, b, 1)
TextLeq(a, b) == a = b \/ TextLess(a, b)

\* A run of pattern characters without % matches text at position j: _ is any
\* one character, ASCII letters match ignoring case
LikeSegAt(text, seg, j) ==
    /\ j >= 1
    /\ j + Len(seg) - 1 <= Len(text)
    /\ \A k \in 1..Len(seg) :
          seg[k] = "_" \/ UpperChar(seg[k]) = UpperChar(text[j + k - 1])

\* The pattern from position i, which holds a %, up to the last % at position
\* last, against text[j..hi]: each run between two % is found at its leftmost place
RECURSIVE LikeMiddle(_, _, _, _, _, _)
LikeMiddle(pat, i, last, text, j, hi) ==
    IF i >= last THEN TRUE
    ELSE LET nxt == CHOOSE k \in (i + 1)..last :
                        pat[k] = "%" /\ \A q \in (i + 1)..(k - 1) : pat[q] # "%"
             seg == Slice(pat, i + 1, nxt - 1)
             at  == {p \in j..(hi - Len(seg) + 1) : LikeSegAt(text, seg, p)}
         IN  /\ at # {}
             /\ LikeMiddle(pat, nxt, last, text,
                           (CHOOSE p \in at : \A q \in at : p <= q) + Len(seg), hi)

\* text LIKE pat: % is any run of characters
Like(pat, text) ==
    LET pct   == {i \in DOMAIN pat : pat[i] = "%"}
        first == CHOOSE i \in pct : \A k \in pct : i <= k
        last  == CHOOSE i \in pct : \A k \in pct : k <= i
        head  == Slice(pat, 1, first - 1)
        tail  == From(pat, last + 1)
    IN  IF pct = {} THEN Len(pat) = Len(text) /\ LikeSegAt(text, pat, 1)
        ELSE /\ Len(head) + Len(tail) <= Len(text)
             /\ LikeSegAt(text, head, 1)
             /\ LikeSegAt(text, tail, Len(text) - Len(tail) + 1)
             /\ LikeMiddle(pat, first, last, text, Len(head) + 1, Len(text) - Len(tail))

\* LIMIT n of a result list (a negative LIMIT is no limit)
Limit(rows, n) ==
    IF n < 0 \/ n >= Len(rows) THEN rows ELSE SubSeq(rows, 1, n)

\* The orders in which a SELECT may return the elements of S under ORDER BY:
\* <<x, y>> \in Before says y may not come before x (rows that tie come in any
\* order)
Orderings(S, Before) ==
    {f \in [1..Cardinality(S) -> S] :
        /\ \A i, j \in DOMAIN f : i # j => f[i] # f[j]
        /\ \A i, j \in DOMAIN f : i < j => <<f[j], f[i]>> \notin Before}

(***************************************************************************)
(* src/analyzer.py                                                         *)
(***************************************************************************)
\* An optional str argument that was not given (None)
NoneS == "<None>"
\* `if x:` for the arguments that are names (level, source) and texts
TruthyS(x) == x \notin {NoneS, ""}
TruthyT(x) == x \notin {NULL, <<>>}

\* The rows of the table with their ids
Ids(rows) == DOMAIN rows

\* _build_where: whether row r satisfies the WHERE clause built from the arguments
build_where(r, level, contains, host, source, since, until) ==
    /\ TruthyS(level)    => r.level = level
    /\ TruthyT(contains) => Like(<<"%">> \o contains \o <<"%">>, r.message)
    /\ TruthyT(host)     => r.host = host
    /\ TruthyS(source)   => r.source = source
    /\ TruthyT(since)    => TextLeq(since, r.timestamp)
    /\ TruthyT(until)    => TextLeq(r.timestamp, until)

\* SELECT timestamp, source, level, host, message
Project(r) ==
    [timestamp |-> r.timestamp, source |-> r.source, level |-> r.level,
     host |-> r.host, message |-> r.message]

\* The results filter_logs may return
filter_logs(rows, a, asc, limit) ==
    LET match == {i \in Ids(rows) :
                     build_where(rows[i], a.level, a.contains, a.host, a.source,
                                 a.since, a.until)}
        before == {p \in match \X match :
                      IF asc THEN TextLess(rows[p[1]].timestamp, rows[p[2]].timestamp)
                             ELSE TextLess(rows[p[2]].timestamp, rows[p[1]].timestamp)}
    IN  {Limit([k \in DOMAIN f |-> Project(rows[f[k]])], limit) :
            f \in Orderings(match, before)}

\* The results last_logs may return
last_logs(rows, limit) ==
    LET before == {p \in Ids(rows) \X Ids(rows) :
                      TextLess(rows[p[2]].timestamp, rows[p[1]].timestamp)}
    IN  {Limit([k \in DOMAIN f |-> Project(rows[f[k]])], limit) :
            f \in Orderings(Ids(rows), before)}

\* SELECT key, COUNT(*) ... GROUP BY key ORDER BY count DESC LIMIT ?: the results,
\* as lists of <<key, count>>, over the rows with ids in match; column names the
\* grouping column
GroupCounts(rows, match, column, limit) ==
    LET keys == {rows[i][column] : i \in match}
        n == [k \in keys |-> Cardinality({i \in match : rows[i][column] = k})]
        before == {p \in keys \X keys : n[p[1]] > n[p[2]]}
    IN  {Limit([k \in DOMAIN f |-> <<f[k], n[f[k]]>>], limit) :
            f \in Orderings(keys, before)}

\* The results count_by_level may return
count_by_level(rows) == GroupCounts(rows, Ids(rows), "level", -1)

\* The results filter_hosts may return
filter_hosts(rows, a, limit) ==
    GroupCounts(rows,
                {i \in Ids(rows) :
                    build_where(rows[i], a.level, a.contains, a.host, a.source,
                                a.since, a.until)},
                "host", limit)

\* The results top_errors may return (as <<message, count>>)
top_errors(rows, a, limit) ==
    GroupCounts(rows,
                {i \in Ids(rows) :
                    build_where(rows[i], a.level, a.contains, a.host, a.source,
                                a.since, a.until)},
                "message", limit)

(***************************************************************************)
(* src/models.py: the dashboard's queries                                  *)
(***************************************************************************)
\* MIN(timestamp) / MAX(timestamp): NULL over an empty table
MinTimestamp(rows) ==
    IF rows = <<>> THEN NULL
    ELSE rows[CHOOSE i \in Ids(rows) :
                 \A j \in Ids(rows) : TextLeq(rows[i].timestamp, rows[j].timestamp)].timestamp
MaxTimestamp(rows) ==
    IF rows = <<>> THEN NULL
    ELSE rows[CHOOSE i \in Ids(rows) :
                 \A j \in Ids(rows) : TextLeq(rows[j].timestamp, rows[i].timestamp)].timestamp

get_summary(rows) ==
    [total    |-> Len(rows),
     errors   |-> Cardinality({i \in Ids(rows) : rows[i].level = "ERROR"}),
     warnings |-> Cardinality({i \in Ids(rows) : rows[i].level = "WARNING"}),
     first_ts |-> MinTimestamp(rows),
     last_ts  |-> MaxTimestamp(rows)]

\* get_latest_logs: ORDER BY id DESC LIMIT ? OFFSET ?, every column and the id
RECURSIVE IdsDescending(_, _)
IdsDescending(S, n) ==
    IF n = 0 THEN <<>>
    ELSE IF n \in S THEN <<n>> \o IdsDescending(S, n - 1) ELSE IdsDescending(S, n - 1)
get_latest_logs(rows, limit, offset, level) ==
    LET match == {i \in Ids(rows) : TruthyS(level) => rows[i].level = level}
        ids   == IdsDescending(match, Len(rows))
        tail  == IF offset >= Len(ids) THEN <<>> ELSE SubSeq(ids, offset + 1, Len(ids))
    IN  Limit([k \in DOMAIN tail |-> [id |-> tail[k], row |-> rows[tail[k]]]], limit)

(***************************************************************************)
(* The program state                                                       *)
(***************************************************************************)
VARIABLES
    store,   \* the committed rows of the logs table, in insertion (id) order
    txn,     \* rows inserted on the running pass's connection, not yet committed
    pc,      \* "idle", "loop" (inside an ingestion loop), "returned", "raised"
    entry,   \* the ingestion entry point that ran last or is running
    line,    \* the loop variable `line` of the running pass
    count,   \* the loop variable `count` of the running pass
    error,   \* the exception the last call surfaced, or "none"
    result,  \* what the last query returned, until the next call
    ops,     \* lines read, dashboard actions and queries performed so far
    before,  \* the number of rows of the table when the last ingestion call began
    stream,  \* the uploaded file's stream: its content, its position, bytes or text
    schema   \* the logs table of the database file: its columns and indexes

vars == <<store, txn, pc, entry, line, count, error, result, ops, before, stream, schema>>

\* Bound of the model: lines read, dashboard actions and queries in one behaviour
MaxOps == 2

\* No query has returned since the last call
NoResult == [op |-> "none"]

\* The database file holds no logs table
NoTable == [columns |-> {}, notnull |-> {}, indexes |-> {}]

\* The table that CREATE TABLE IF NOT EXISTS of cmd_init_db creates
CliSchema ==
    [columns |-> {"id", "timestamp", "source", "level", "host", "message"},
     notnull |-> {"timestamp", "source", "level", "host", "message"},
     indexes |-> {}]

\* The table and indexes that init_db creates in a file with no logs table
ModelsSchema ==
    [columns |-> {"id", "timestamp", "source", "level", "host", "message",
                  "cause_group", "cause_reason", "cause_action"},
     notnull |-> {},
     indexes |-> {"idx_logs_level_ts", "idx_logs_host_ts"}]

\* No upload is open: an empty stream of bytes at position 0
NoStream == [data |-> <<>>, pos |-> 0, binary |-> TRUE]

\* The ingestion entry points
FileIngestors ==
    {"ingest_syslog", "ingest_zabbix_server", "ingest_syslog_file", "ingest_zabbix_server_log"}
Ingestors == FileIngestors \cup {"ingest_plaintext_log"}

\* Entry points whose inserts go through models.insert_log, which commits each row;
\* the others insert on one connection and commit once, after the loop
CommitsEachRow(e) == e \in {"ingest_syslog", "ingest_zabbix_server"}

\* The host alias each entry point is called with (its default, or the upload's)
HostAlias(e) ==
    CASE e = "ingest_zabbix_server"     -> <<"z","a","b","b","i","x","-","s","e","r","v","e","r">>
      [] e = "ingest_zabbix_server_log" -> <<"z","b","x","-","s","e","r","v","e","r">>
      [] e = "ingest_syslog_file"       -> <<"l","o","c","a","l","h","o","s","t">>
      [] OTHER                          -> <<"u","p","l","o","a","d","-","h","o","s","t">>

\* Lines of input files, as iterating the file yields them
BlankLines == { <<"\n">>, <<" "," ","\n">> }
SyslogLines ==
    { <<"N","o","v"," ","2","7"," ","1","5",":","3","0",":","4","5"," ","h","o","s","t","1"," ","s","o","m","e","t","h","i","n","g"," ","f","a","i","l","e","d","\n">>,
      <<"N","o","v"," ","9","9"," ","1","5",":","3","0",":","4","5"," ","h","o","s","t","1"," ","x","\n">>,
      <<"N","o","v"," ","2","7"," ","1","5",":","3","0",":","4","5"," ","h","o","s","t","1"," ","\n">>,
      <<"h","e","l","l","o"," ","w","o","r","l","d","\n">> }
ZabbixLines ==
    { <<"1","2",":","2","0","2","4","1","1","2","7",":","1","5","3","0","4","5",".","1","0","0",":"," ","c","a","n","n","o","t"," ","c","o","n","n","e","c","t","\n">>,
      <<"1","2",":","2","0","2","4","1","3","9","9",":","1","5","3","0","4","5",":"," ","x","\n">>,
      <<"1","2",":","2","0","2","4","1","1","2","7",":","1","5","3","0","4","5",":","\n">>,
      <<"1","2","3","4",":","2","0","2","4","1","1","2","7",":","1","5","3","0","4","5",".","1","0","0"," ","S","t","a","r","t","i","n","g"," ","Z","a","b","b","i","x"," ","S","e","r","v","e","r","\n">> }
PlainLines ==
    { <<"[","0","2","-","O","c","t","-","2","0","2","5"," ","1","5",":","5","9",":","4","0"," ","E","u","r","o","p","e","/","B","e","r","l","i","n","]"," ","P","H","P"," ","N","o","t","i","c","e",":"," ","c","U","R","L"," ","e","r","r","o","r",":"," ","F","a","i","l","e","d"," ","t","o"," ","c","o","n","n","e","c","t"," ","t","o"," ","1","9","2",".","1","6","8",".","0",".","2","0","4"," ","p","o","r","t"," ","8","4","4","3",":"," ","C","o","n","n","e","c","t","i","o","n"," ","r","e","f","u","s","e","d"," ","i","n"," ","/","x",".","p","h","p","\n">>,
      <<"[","0","2","-","O","c","t","-","2","0","2","5"," ","1","5",":","5","9",":","4","0"," ","U","T","C","]"," ","P","H","P"," ","W","a","r","n","i","n","g",":"," ","U","n","d","e","f","i","n","e","d"," ","v","a","r","i","a","b","l","e"," ","$","x"," ","i","n"," ","/","a",".","p","h","p","\n">>,
      <<"2","0","2","4","-","0","1","-","0","1","T","1","0",":","0","0",":","0","0"," ","n","o","t","i","c","e",":"," ","d","i","s","k"," ","n","e","a","r","l","y"," ","f","u","l","l","\n">>,
      <<"2","0","2","4","-","0","1","-","0","1"," ","1","0",":","0","0",":","0","0","\n">>,
      <<"h","e","l","l","o"," ","w","o","r","l","d">> }
CliLines == { <<"h","e","l","l","o"," ","w","o","r","l","d","\n">>, <<"x"," ","C","R","I","T","I","C","A","L"," ","y">> }

InputLines(e) ==
    BlankLines \cup
    CASE e = "ingest_syslog"        -> SyslogLines
      [] e = "ingest_zabbix_server" -> ZabbixLines
      [] e = "ingest_plaintext_log" -> PlainLines
      [] OTHER                      -> CliLines

Init ==
    /\ store = <<>>
    /\ txn = <<>>
    /\ pc = "idle"
    /\ entry = "none"
    /\ line = <<>>
    /\ count = 0
    /\ error = "none"
    /\ result = NoResult
    /\ ops = 0
    /\ before = 0
    /\ stream = NoStream
    /\ schema = ModelsSchema

\* InsertRow as INSERT OR REPLACE on the newest row: the row overwrites it
InsertRowReplacing(rows, row) ==
    IF rows = <<>> THEN <<row>> ELSE [rows EXCEPT ![Len(rows)] = row]

\* models.insert_log / cur.execute("INSERT ..."): a row is appended to the table
InsertRow(rows, row) == Append(rows, row)

\* Inserted with a commit after every INSERT in every entry point
InsertedCommitted(e, row) == store' = Append(store, row) /\ txn' = txn

\* Where a pass's insert lands: committed at once, or pending on the connection
Inserted(e, row) ==
    IF CommitsEachRow(e)
    THEN store' = InsertRow(store, row) /\ txn' = txn
    ELSE txn' = InsertRow(txn, row) /\ store' = store

\* The call of an ingestion entry point on an input that exists
Begin(e) ==
    /\ pc # "loop"
    /\ pc' = "loop"
    /\ entry' = e
    /\ line' = <<>>
    /\ count' = 0
    /\ error' = "none"
    /\ txn' = <<>>
    /\ result' = NoResult
    /\ before' = Len(store)
    /\ UNCHANGED <<store, ops, stream, schema>>

\* NotFound with an init_db() that recreates the table before the path is checked
NotFoundAfterDrop(e) ==
    /\ pc # "loop"
    /\ e \in FileIngestors
    /\ pc' = "raised"
    /\ entry' = e
    /\ error' = "FileNotFoundError"
    /\ line' = <<>>
    /\ count' = 0
    /\ txn' = <<>>
    /\ result' = NoResult
    /\ store' = <<>>
    /\ UNCHANGED <<ops, before, stream, schema>>

\* The call of a file ingestor on a path that does not exist
\* (ingest_syslog and ingest_zabbix_server run init_db() first: no row is written)
NotFound(e) ==
    /\ pc # "loop"
    /\ e \in FileIngestors
    /\ pc' = "raised"
    /\ entry' = e
    /\ error' = "FileNotFoundError"
    /\ line' = <<>>
    /\ count' = 0
    /\ txn' = <<>>
    /\ result' = NoResult
    /\ UNCHANGED <<store, ops, before, stream, schema>>

\* The parser's answer ends the iteration: nothing, a raise, or an insert
AfterParse(e, parsed) ==
    IF parsed = None
    THEN UNCHANGED <<store, txn, pc, count, error>>
    ELSE IF parsed = RaisedValueError
    THEN /\ pc' = "raised"
         /\ error' = "ValueError"
         /\ UNCHANGED <<store, txn, count>>
    ELSE /\ Inserted(e, Row(parsed.timestamp, parsed.source, parsed.level,
                            parsed.host, parsed.message, NULL, NULL, NULL))
         /\ count' = count + 1
         /\ UNCHANGED <<pc, error>>

\* One iteration of the loop of ingest.ingest_syslog
StepSyslog(raw, now) ==
    /\ pc = "loop" /\ entry = "ingest_syslog" /\ ops < MaxOps
    /\ ops' = ops + 1
    /\ line' = RStripNL(raw)
    /\ AfterParse(entry, parse_syslog_line(RStripNL(raw), 0, now))
    /\ UNCHANGED <<entry, result, before, stream, schema>>

\* One iteration of the loop of ingest.ingest_zabbix_server
StepZabbixServer(raw, now) ==
    /\ pc = "loop" /\ entry = "ingest_zabbix_server" /\ ops < MaxOps
    /\ ops' = ops + 1
    /\ line' = RStripNL(raw)
    /\ AfterParse(entry, parse_zabbix_server_line(RStripNL(raw), HostAlias(entry), now))
    /\ UNCHANGED <<entry, result, before, stream, schema>>

\* One iteration of the loop of models.ingest_plaintext_log
StepPlaintext(raw, utcnow) ==
    /\ pc = "loop" /\ entry = "ingest_plaintext_log" /\ ops < MaxOps
    /\ ops' = ops + 1
    /\ line' = Strip(raw)
    /\ IF Strip(raw) = <<>>
       THEN UNCHANGED <<store, txn>>
       ELSE Inserted(entry, PlaintextRow(Strip(raw), "upload:app.log", HostAlias(entry), utcnow))
    /\ UNCHANGED <<pc, entry, count, error, result, before, stream, schema>>

\* StepSyslogFile with count += 1 placed before the test that skips empty lines
StepSyslogFileCountsAll(raw, now) ==
    /\ pc = "loop" /\ entry = "ingest_syslog_file" /\ ops < MaxOps
    /\ ops' = ops + 1
    /\ line' = RStripNL(raw)
    /\ count' = count + 1
    /\ IF RStripNL(raw) = <<>>
       THEN UNCHANGED <<store, txn>>
       ELSE Inserted(entry, Row(now_str(now), "syslog", "INFO", HostAlias(entry),
                                RStripNL(raw), NULL, NULL, NULL))
    /\ UNCHANGED <<pc, entry, error, result, before, stream, schema>>

\* One iteration of the loop of cli.ingest_syslog_file
StepSyslogFile(raw, now) ==
    /\ pc = "loop" /\ entry = "ingest_syslog_file" /\ ops < MaxOps
    /\ ops' = ops + 1
    /\ line' = RStripNL(raw)
    /\ IF RStripNL(raw) = <<>>
       THEN UNCHANGED <<store, txn, count>>
       ELSE /\ Inserted(entry, Row(now_str(now), "syslog", "INFO", HostAlias(entry),
                                   RStripNL(raw), NULL, NULL, NULL))
            /\ count' = count + 1
    /\ UNCHANGED <<pc, entry, error, result, before, stream, schema>>

\* One iteration of the loop of cli.ingest_zabbix_server_log
StepZabbixServerLog(raw, now) ==
    /\ pc = "loop" /\ entry = "ingest_zabbix_server_log" /\ ops < MaxOps
    /\ ops' = ops + 1
    /\ line' = RStripNL(raw)
    /\ IF RStripNL(raw) = <<>>
       THEN UNCHANGED <<store, txn, count>>
       ELSE /\ Inserted(entry, Row(now_str(now), "zabbix_server_raw",
                                   guess_level_from_line(RStripNL(raw)), HostAlias(entry),
                                   RStripNL(raw), NULL, NULL, NULL))
            /\ count' = count + 1
    /\ UNCHANGED <<pc, entry, error, result, before, stream, schema>>

\* An int as a returned value
IntValue(n) == [kind |-> "int", int |-> n]

\* What the entry point returns on normal completion: `return count`;
\* ingest_plaintext_log has no return statement and returns None
ReturnValue(e, n) == IF e = "ingest_plaintext_log" THEN None ELSE IntValue(n)

\* The end of the stream: conn.commit() of the passes that commit once, then return
Finish ==
    /\ pc = "loop"
    /\ pc' = "returned"
    /\ store' = store \o txn
    /\ txn' = <<>>
    /\ line' = <<>>
    /\ result' = [op |-> "return", value |-> ReturnValue(entry, count)]
    /\ UNCHANGED <<entry, count, error, ops, before, stream, schema>>

\* The pass is abandoned or fails between two lines (the store raises, the caller
\* gives up): what was not committed is rolled back with the connection
Interrupt ==
    /\ pc = "loop"
    /\ pc' = "raised"
    /\ error' = "Interrupted"
    /\ txn' = <<>>
    /\ UNCHANGED <<store, entry, line, count, result, ops, before, stream, schema>>

(***************************************************************************)
(* web_app.py: the dashboard's action buttons                              *)
(***************************************************************************)
\* The rows the three action routes insert; utcnow is what datetime.utcnow()
\* returns.  (The accented letters of the messages are written unaccented.)
ActionRow(route, utcnow) ==
    CASE route = "action_execute_block" ->
           Row(Strftime(utcnow), "action:ddos_block", "INFO", <<"w","a","n","-","g","a","t","e","w","a","y","-","0","4">>,
               <<"A","c","a","o"," ","E","X","E","C","U","T","E"," ","B","L","O","C","K"," ","d","i","s","p","a","r","a","d","a"," ","v","i","a"," ","d","a","s","h","b","o","a","r","d"," ","(","s","i","m","u","l","a","c","a","o"," ","i","p","t","a","b","l","e","s"," ","D","R","O","P"," ","4","5",".","2","2",".","0",".","0","/","1","6",")",".">>,
               <<"s","e","g","u","r","a","n","c","a">>, <<"M","i","t","i","g","a","c","a","o"," ","D","D","o","S"," ","m","a","n","u","a","l">>, <<"B","L","O","C","K","_","S","U","B","N","E","T">>)
      [] route = "action_db_scale_out" ->
           Row(Strftime(utcnow), "action:db_scale_out", "INFO", <<"d","b","-","c","l","u","s","t","e","r","-","0","1">>,
               <<"A","c","a","o"," ","D","B"," ","S","C","A","L","E"," ","O","U","T"," ","d","i","s","p","a","r","a","d","a"," ","v","i","a"," ","d","a","s","h","b","o","a","r","d"," ","(","s","i","m","u","l","a","c","a","o"," ","p","r","o","v","i","s","i","o","n","a","m","e","n","t","o"," ","R","e","a","d"," ","R","e","p","l","i","c","a",")",".">>,
               <<"b","a","n","c","o","_","d","a","d","o","s">>, <<"E","s","c","a","l","o","n","a","m","e","n","t","o"," ","h","o","r","i","z","o","n","t","a","l"," ","p","l","a","n","e","j","a","d","o">>, <<"P","R","O","V","I","S","I","O","N","_","R","E","A","D","_","R","E","P","L","I","C","A">>)
      [] route = "action_disk_cleanup" ->
           Row(Strftime(utcnow), "action:disk_cleanup", "WARNING", <<"l","o","g","-","s","r","v","-","0","2">>,
               <<"A","c","a","o"," ","D","I","S","K"," ","C","L","E","A","N","U","P"," ","d","i","s","p","a","r","a","d","a"," ","v","i","a"," ","d","a","s","h","b","o","a","r","d"," ","(","s","i","m","u","l","a","c","a","o"," ","l","i","m","p","e","z","a"," ","d","e"," ","/","v","a","r","/","l","o","g",")",".">>,
               <<"h","a","r","d","w","a","r","e">>, <<"D","i","s","c","o"," ","e","m"," ","a","l","t","a"," ","u","t","i","l","i","z","a","c","a","o">>, <<"R","U","N","_","C","L","E","A","N","U","P">>)

ActionRoutes == {"action_execute_block", "action_db_scale_out", "action_disk_cleanup"}

\* One of the action routes: models.insert_log of its row
ActionLog(route, utcnow) ==
    /\ pc # "loop" /\ ops < MaxOps
    /\ ops' = ops + 1
    /\ store' = InsertRow(store, ActionRow(route, utcnow))
    /\ pc' = "idle"
    /\ error' = "none"
    /\ result' = NoResult
    /\ UNCHANGED <<txn, entry, line, count, before, stream, schema>>

(***************************************************************************)
(* The queries, as the command line and the dashboard call them            *)
(***************************************************************************)
\* Filter arguments the queries are called with
NoFilter ==
    [level |-> NoneS, contains |-> NULL, host |-> NULL, source |-> NoneS,
     since |-> NULL, until |-> NULL]
FilterArgs ==
    { NoFilter,
      [NoFilter EXCEPT !.level = "INFO", !.contains = <<"F","A","I","L","E","D">>],
      [NoFilter EXCEPT !.host = <<"u","p","l","o","a","d","-","h","o","s","t">>, !.since = <<"2","0","2","5","-","0","1","-","0","1">>,
                       !.until = <<"2","0","2","5","-","1","2","-","3","1"," ","2","3",":","5","9",":","5","9">>] }

\* A query is a call of its own: it reads the committed rows and returns one of
\* the results the SELECT may give
Query(op, values) ==
    /\ pc # "loop" /\ ops < MaxOps
    /\ ops' = ops + 1
    /\ \E v \in values : result' = [op |-> op, value |-> v]
    /\ pc' = "idle"
    /\ error' = "none"
    /\ UNCHANGED <<store, txn, entry, line, count, before, stream, schema>>

QLastLogs(limit) == Query("last_logs", last_logs(store, limit))
QCountByLevel == Query("count_by_level", count_by_level(store))
QFilterLogs(a, asc, limit) == Query("filter_logs", filter_logs(store, a, asc, limit))
QFilterHosts(a, limit) == Query("filter_hosts", filter_hosts(store, a, limit))
\* cmd_top_errors: --level defaults to ERROR
QTopErrors(a, limit) ==
    Query("top_errors",
          top_errors(store, [a EXCEPT !.level = IF a.level = NoneS THEN "ERROR" ELSE a.level],
                     limit))
QGetSummary == Query("get_summary", {get_summary(store)})
QGetLatestLogs(limit, offset, level) ==
    Query("get_latest_logs", {get_latest_logs(store, limit, offset, level)})

Next ==
    \/ \E e \in Ingestors : Begin(e)
    \/ \E e \in FileIngestors : NotFound(e)
    \/ \E raw \in InputLines("ingest_syslog"), now \in Clock : StepSyslog(raw, now)
    \/ \E raw \in InputLines("ingest_zabbix_server"), now \in Clock : StepZabbixServer(raw, now)
    \/ \E raw \in InputLines("ingest_plaintext_log"), now \in Clock : StepPlaintext(raw, now)
    \/ \E raw \in InputLines("ingest_syslog_file"), now \in Clock : StepSyslogFile(raw, now)
    \/ \E raw \in InputLines("ingest_zabbix_server_log"), now \in Clock : StepZabbixServerLog(raw, now)
    \/ Finish
    \/ Interrupt
    \/ \E route \in ActionRoutes, now \in Clock : ActionLog(route, now)
    \/ \E limit \in {1, 20} : QLastLogs(limit)
    \/ QCountByLevel
    \/ \E a \in FilterArgs, asc \in BOOLEAN, limit \in {1, 20} : QFilterLogs(a, asc, limit)
    \/ \E a \in FilterArgs : QFilterHosts(a, 20)
    \/ \E a \in FilterArgs : QTopErrors(a, 20)
    \/ QGetSummary
    \/ \E offset \in {0, 1}, level \in {NoneS, "ERROR"} : QGetLatestLogs(50, offset, level)

Spec == Init /\ [][Next]_vars

(***************************************************************************)
(* Calls of the line parsers on lines drawn from catalogues                *)
(***************************************************************************)
\* The parts of Zabbix-daemon lines: pid, date, time, fraction, what follows
\* the time, and the message
ZbxPids == { <<"1","2","3","4">>,
      <<"7">> }
ZbxDates == { <<"2","0","2","4","1","1","2","7">>,
      <<"2","0","2","4","0","2","2","9">> }
ZbxTimes == { <<"1","5","3","0","4","5">> }
ZbxFractions == { <<>>,
      <<".","1","0","0">> }
ZbxSeparators == { <<":">>,
      <<":"," ">>,
      <<" ">> }
ZbxMessages ==
    { <<"S","t","a","r","t","i","n","g"," ","Z","a","b","b","i","x"," ","S","e","r","v","e","r">>,
      <<"c","a","n","n","o","t"," ","c","o","n","n","e","c","t"," ","t","o"," ","d","b">>,
      <<"u","n","a","b","l","e"," ","t","o"," ","o","p","e","n"," ","f","i","l","e">> }
DaemonLine(pid, date, time, frac, sep, msg) ==
    pid \o <<":">> \o date \o <<":">> \o time \o frac \o sep \o msg \o <<"\n">>
DaemonLines ==
    { DaemonLine(pid, date, time, frac, sep, msg) :
        pid \in ZbxPids, date \in ZbxDates, time \in ZbxTimes,
        frac \in ZbxFractions, sep \in ZbxSeparators, msg \in ZbxMessages }

\* The parts of syslog lines: month, day, time, host and message
SysMonths == { <<"N","o","v">>,
      <<"F","e","b">> }
SysDays == { <<"2","7">>,
      <<"2","9">> }
SysTimes == { <<"1","5",":","3","0",":","4","5">> }
SysHosts == { <<"h","o","s","t","1">>,
      <<"w","e","b","-","2">> }
SysMessages ==
    { <<"s","o","m","e","t","h","i","n","g"," ","f","a","i","l","e","d">>,
      <<"d","i","s","k"," ","e","r","r","o","r"," ","o","n"," ","s","d","a">>,
      <<"s","t","a","r","t","e","d">>,
      <<"w","a","r","n",":"," ","l","o","w"," ","d","i","s","k">> }
SyslogLine(mon, day, time, host, msg) ==
    mon \o <<" ">> \o day \o <<" ">> \o time \o <<" ">> \o host \o <<" ">> \o msg \o <<"\n">>
SyslogShapedLines ==
    { SyslogLine(mon, day, time, host, msg) :
        mon \in SysMonths, day \in SysDays, time \in SysTimes,
        host \in SysHosts, msg \in SysMessages }

\* The parts of php_errors.log lines reporting a failed connection: the PHP
\* level, the address, the port, the reason and the " in <file>" suffix
PhpNetLevels == { <<"N","o","t","i","c","e">>,
      <<"W","a","r","n","i","n","g">>,
      <<"F","a","t","a","l"," ","e","r","r","o","r">> }
PhpNetIps == { <<"1","9","2",".","1","6","8",".","0",".","2","0","4">>,
      <<"1","0",".","0",".","0",".","1">> }
PhpNetPorts == { <<"8","4","4","3">>,
      <<"8","0">> }
PhpNetReasons == { <<"C","o","n","n","e","c","t","i","o","n"," ","r","e","f","u","s","e","d">>,
      <<"T","i","m","e","o","u","t"," ","w","a","s"," ","r","e","a","c","h","e","d">> }
PhpNetSuffixes == { <<" ","i","n"," ","/","x",".","p","h","p">>,
      <<>> }
PhpNetLine(php_level, ip, port, reason, suffix) ==
    <<"[","0","2","-","O","c","t","-","2","0","2","5"," ","1","5",":","5","9",":","4","0"," ","E","u","r","o","p","e","/","B","e","r","l","i","n","]">>
    \o <<" ","P","H","P"," ">> \o php_level
    \o <<":"," ","c","U","R","L"," ","e","r","r","o","r",":"," ","F","a","i","l","e","d"," ","t","o"," ","c","o","n","n","e","c","t"," ","t","o"," ">>
    \o ip \o <<" ","p","o","r","t"," ">> \o port \o <<":"," ">> \o reason \o suffix \o <<"\n">>
PhpNetLines ==
    { PhpNetLine(php_level, ip, port, reason, suffix) :
        php_level \in PhpNetLevels, ip \in PhpNetIps, port \in PhpNetPorts,
        reason \in PhpNetReasons, suffix \in PhpNetSuffixes }

\* PHP warnings whose text is head, sep, tail: sep is " in " in some letter
\* case or " at ", and one tail holds a " in " of its own
PhpInHeads == { <<"U","n","d","e","f","i","n","e","d"," ","v","a","r","i","a","b","l","e">>,
      <<"c","U","R","L"," ","e","r","r","o","r"," ","2","8">> }
PhpInSeps == { <<" ","i","n"," ">>, <<" ","I","N"," ">>, <<" ","I","n"," ">>, <<" ","a","t"," ">> }
PhpInTails == { <<"/","a",".","p","h","p"," ","o","n"," ","l","i","n","e"," ","3">>,
      <<"/","a",".","p","h","p"," ","i","n"," ","f","r","a","m","e"," ","2">> }
PhpInLine(head, sep, tail) ==
    <<"[","0","2","-","O","c","t","-","2","0","2","5"," ","1","5",":","5","9",":","4","0"," ","U","T","C","]"," ","P","H","P"," ","W","a","r","n","i","n","g",":"," ">>
    \o head \o sep \o tail \o <<"\n">>
PhpInLines ==
    { PhpInLine(head, sep, tail) : head \in PhpInHeads, sep \in PhpInSeps, tail \in PhpInTails }

\* The lines the parsers are called with
ParserLines ==
    DaemonLines \cup SyslogShapedLines \cup PhpNetLines \cup PhpInLines
    \cup BlankLines \cup SyslogLines \cup ZabbixLines \cup PlainLines
\* The host aliases the Zabbix parsers are called with
ParserHosts == { <<"z","a","b","b","i","x","-","s","e","r","v","e","r">>,
      <<"z","b","x","-","p","r","o","x","y","-","2">> }
\* The year argument of parse_syslog_line; 0 stands for None
ParserYears == {0, 2024}

\* A parser call: its name, its arguments besides the line, the instant the
\* clock showed and the value returned
Called(op, host, year, now, value) ==
    /\ pc = "input"
    /\ pc' = "called"
    /\ result' = [op |-> op, host |-> host, year |-> year, now |-> now, value |-> value]
    /\ UNCHANGED <<store, txn, entry, line, count, error, ops, before, stream, schema>>

CallParseSyslogLine ==
    \E year \in ParserYears, now \in Clock :
        Called("parse_syslog_line", <<>>, year, now, parse_syslog_line(line, year, now))
CallParseZabbixServerLine ==
    \E host \in ParserHosts, now \in Clock :
        Called("parse_zabbix_server_line", host, 0, now, parse_zabbix_server_line(line, host, now))
CallParseZabbixProxyLine ==
    \E host \in ParserHosts, now \in Clock :
        Called("parse_zabbix_proxy_line", host, 0, now, parse_zabbix_proxy_line(line, host, now))
CallParsePhpErrorLine ==
    \E utcnow \in Clock :
        Called("parse_php_error_line", <<>>, 0, utcnow, parse_php_error_line(line, utcnow))

InitParsers ==
    /\ store = <<>>
    /\ txn = <<>>
    /\ pc = "input"
    /\ entry = "none"
    /\ line \in ParserLines
    /\ count = 0
    /\ error = "none"
    /\ result = NoResult
    /\ ops = 0
    /\ before = 0
    /\ stream = NoStream
    /\ schema = ModelsSchema

NextParsers ==
    \/ CallParseSyslogLine
    \/ CallParseZabbixServerLine
    \/ CallParseZabbixProxyLine
    \/ CallParsePhpErrorLine

SpecParsers == InitParsers /\ [][NextParsers]_vars


(***************************************************************************)
(* src/cli.py: the filter presets                                          *)
(***************************************************************************)
\* PRESETS: the fields each preset defines
PRESETS ==
    [email   |-> [level |-> "ERROR", contains |-> "failed to send email"],
     network |-> [contains |-> "network"],
     proxy   |-> [contains |-> "proxy"],
     agent   |-> [contains |-> "Zabbix agent"],
     db      |-> [contains |-> "database"]]

\* PRESETS.get(name, {})
PresetsGet(name) == IF name \in DOMAIN PRESETS THEN PRESETS[name] ELSE <<>>

\* the level and contains _apply_preset leaves in args, given the preset dict
PresetFilled(args, preset) ==
    [args EXCEPT
        !.level    = IF args.level = NoneS /\ "level" \in DOMAIN preset
                     THEN preset.level ELSE @,
        !.contains = IF args.contains = NoneS /\ "contains" \in DOMAIN preset
                     THEN preset.contains ELSE @]

\* _apply_preset where the preset's fields replace the caller's
_apply_preset_forced(args) ==
    IF args.preset \in {NoneS, ""} THEN args
    ELSE [args EXCEPT
            !.level    = IF "level" \in DOMAIN PresetsGet(args.preset)
                         THEN PresetsGet(args.preset).level ELSE @,
            !.contains = IF "contains" \in DOMAIN PresetsGet(args.preset)
                         THEN PresetsGet(args.preset).contains ELSE @]

\* _apply_preset(args): args is the argparse namespace, NoneS an unset option
_apply_preset(args) ==
    IF args.preset \in {NoneS, ""} THEN args
    ELSE PresetFilled(args, PresetsGet(args.preset))

\* The namespaces _apply_preset is called with: what argparse builds for the
\* filter and top-errors commands, and an empty or unknown preset name
PresetArgs ==
    [preset   : {NoneS, "", "email", "network", "proxy", "agent", "db", "other"},
     level    : {NoneS, "INFO", "ERROR"},
     contains : {NoneS, "", "timeout"},
     host     : {NoneS, "host1"},
     source   : {NoneS, "syslog"},
     since    : {NoneS, "2025-11-27 21:00"},
     until    : {NoneS},
     limit    : {20},
     asc      : {FALSE, TRUE}]

CallApplyPreset ==
    /\ pc = "idle"
    /\ pc' = "called"
    /\ \E args \in PresetArgs :
           result' = [op |-> "_apply_preset", args |-> args, value |-> _apply_preset(args)]
    /\ UNCHANGED <<store, txn, entry, line, count, error, ops, before, stream, schema>>

NextPresets == CallApplyPreset

SpecPresets == Init /\ [][NextPresets]_vars

(***************************************************************************)
(* Queries on tables drawn from a catalogue of rows                        *)
(***************************************************************************)
\* The most rows a table of the catalogue holds
MaxRows == 4

\* Three rows: two of one instant whose messages differ in letter case, and a
\* later one of another level
StoredRows ==
    { Row(<<"2","0","2","5","-","0","1","-","0","1"," ","1","0",":","0","0",":","0","0">>, "syslog", "ERROR", <<"h","1">>, <<"d","i","s","k"," ","e","r","r","o","r">>, NULL, NULL, NULL),
      Row(<<"2","0","2","5","-","0","1","-","0","1"," ","1","0",":","0","0",":","0","0">>, "syslog", "ERROR", <<"h","2">>, <<"D","i","s","k"," ","E","R","R","O","R"," ","o","n"," ","s","d","a">>, NULL, NULL, NULL),
      Row(<<"2","0","2","5","-","0","1","-","0","2"," ","1","0",":","0","0",":","0","0">>, "zabbix_server", "INFO", <<"h","1">>, <<"d","i","s","k"," ","f","u","l","l">>, NULL, NULL, NULL) }

\* The tables: every sequence of at most MaxRows rows of the catalogue
Tables == UNION { [1..n -> StoredRows] : n \in 0..MaxRows }

\* The criteria the queries are called with
QueryFilters ==
    { NoFilter,
      [NoFilter EXCEPT !.level = "ERROR", !.contains = <<>>],
      [NoFilter EXCEPT !.contains = <<"e","r","r","o","r">>],
      [NoFilter EXCEPT !.contains = <<"d","_","s","k">>, !.host = <<"h","1">>],
      [NoFilter EXCEPT !.level = "INFO", !.source = "zabbix_server"],
      [NoFilter EXCEPT !.since = <<"2","0","2","5","-","0","1","-","0","2"," ","1","0",":","0","0",":","0","0">>, !.until = <<"2","0","2","5","-","0","1","-","0","2"," ","2","3",":","5","9",":","5","9">>],
      [NoFilter EXCEPT !.host = <<"h","3">>] }

\* A query call: its name, its arguments and one of the results it may return
Queried(op, a, asc, limit, values) ==
    /\ pc = "idle"
    /\ pc' = "called"
    /\ \E v \in values :
           result' = [op |-> op, args |-> a, asc |-> asc, limit |-> limit, value |-> v]
    /\ UNCHANGED <<store, txn, entry, line, count, error, ops, before, stream, schema>>

CallFilterLogs ==
    \E a \in QueryFilters, asc \in BOOLEAN, limit \in {1, 20} :
        Queried("filter_logs", a, asc, limit, filter_logs(store, a, asc, limit))

\* top_errors called without level (its default is "ERROR") or with one
CallTopErrors ==
    \E a \in QueryFilters, limit \in {1, 20} :
        Queried("top_errors", a, FALSE, limit,
                top_errors(store, [a EXCEPT !.level = IF a.level = NoneS THEN "ERROR" ELSE a.level],
                           limit))

InitQueries ==
    /\ store \in Tables
    /\ txn = <<>>
    /\ pc = "idle"
    /\ entry = "none"
    /\ line = <<>>
    /\ count = 0
    /\ error = "none"
    /\ result = NoResult
    /\ ops = 0
    /\ before = 0
    /\ stream = NoStream
    /\ schema = ModelsSchema

NextQueries ==
    \/ CallFilterLogs
    \/ CallTopErrors

SpecQueries == InitQueries /\ [][NextQueries]_vars

(***************************************************************************)
(* src/models.py: is_probably_log                                          *)
(***************************************************************************)
\* stream.read(max_bytes) at the stream's position: the chunk read
StreamRead(s, max_bytes) ==
    Slice(s.data, s.pos + 1,
          IF s.pos + max_bytes < Len(s.data) THEN s.pos + max_bytes ELSE Len(s.data))

\* The stream after read(max_bytes) with no seek back to the position before
ProbedNoSeek(s, max_bytes) ==
    [s EXCEPT !.pos = s.pos + Len(StreamRead(s, max_bytes))]

\* The stream after pos_before = tell(); read(max_bytes); seek(pos_before)
Probed(s, max_bytes) ==
    [[s EXCEPT !.pos = s.pos + Len(StreamRead(s, max_bytes))] EXCEPT !.pos = s.pos]

\* A byte in (0, ..., 8) or above 126. "<00>" stands for a control byte that
\* decodes to a control character, "<ff>" for a byte that is no UTF-8
IsNonText(b) == b \in {"<00>", "<ff>"}

\* chunk.decode("utf-8", errors="ignore"): bytes that are no UTF-8 are dropped
Decode(chunk) == SelectSeq(chunk, LAMBDA b : b # "<ff>")

\* A line boundary of str.splitlines()
IsBreak(c) == c \in {"\n", "\r"}

\* The positions where the non-empty lines of text.splitlines() start
LineStarts(text) ==
    {i \in 1..Len(text) : ~IsBreak(text[i]) /\ (i = 1 \/ IsBreak(text[i - 1]))}

\* The line of text.splitlines() that starts at position i
LineAt(text, i) ==
    IF \E k \in i..Len(text) : IsBreak(text[k])
    THEN Slice(text, i, (CHOOSE k \in i..Len(text) :
                            IsBreak(text[k]) /\ \A q \in i..(k - 1) : ~IsBreak(text[q])) - 1)
    ELSE From(text, i)

\* lines = [ln.strip() for ln in text.splitlines() if ln.strip()], by start
NonBlankStarts(text) == {i \in LineStarts(text) : Strip(LineAt(text, i)) # <<>>}

\* lines[:20], given the starts of lines
FirstTwenty(starts) == {i \in starts : Cardinality({j \in starts : j < i}) < 20}

\* php_ts_pattern.search(ln): ^\[\d{2}-[A-Za-z]{3}-\d{4}\s+\d{2}:\d{2}:\d{2}\s+[^]]+\]
php_ts_pattern(ln) ==
    /\ Len(ln) >= 13
    /\ ln[1] = "["
    /\ AllDigits(ln, 2, 3) /\ ln[4] = "-"
    /\ \A k \in 5..7 : IsAlpha(ln[k])
    /\ ln[8] = "-" /\ AllDigits(ln, 9, 12)
    /\ SpaceRun(ln, 13) >= 1
    /\ TimeShapeAt(ln, 13 + SpaceRun(ln, 13))
    /\ SpaceRun(ln, 21 + SpaceRun(ln, 13)) >= 1
    /\ FirstBracket(ln, 21 + SpaceRun(ln, 13)) >= 23 + SpaceRun(ln, 13)

\* iso_ts_pattern.search(ln): ^\d{4}-\d{2}-\d{2}[ T]\d{2}:\d{2}:\d{2}
iso_ts_pattern(ln) ==
    /\ Len(ln) >= 19
    /\ AllDigits(ln, 1, 4) /\ ln[5] = "-"
    /\ AllDigits(ln, 6, 7) /\ ln[8] = "-"
    /\ AllDigits(ln, 9, 10)
    /\ ln[11] \in {" ", "T"}
    /\ TimeShapeAt(ln, 12)

\* syslog_ts_pattern.search(ln): ^[A-Z][a-z]{2}\s+[ 0-9]{2}\s+\d{2}:\d{2}:\d{2}
syslog_ts_pattern(ln) ==
    /\ Len(ln) >= 3
    /\ ln[1] \in Range(UpperLetters)
    /\ ln[2] \in Range(LowerLetters) /\ ln[3] \in Range(LowerLetters)
    /\ \E a \in 1..SpaceRun(ln, 4) :
          /\ 5 + a <= Len(ln)
          /\ \A k \in {4 + a, 5 + a} : ln[k] = " " \/ IsDigit(ln[k])
          /\ \E b \in 1..SpaceRun(ln, 6 + a) : TimeShapeAt(ln, 6 + a + b)

\* level_keywords.search(ln):
\* \b(ERROR|WARN(ING)?|INFO|CRITICAL|NOTICE|EXCEPTION)\b, ignoring case
level_keywords(ln) ==
    \E kw \in { <<"E","R","R","O","R">>,
               <<"W","A","R","N">>,
               <<"W","A","R","N","I","N","G">>,
               <<"I","N","F","O">>,
               <<"C","R","I","T","I","C","A","L">>,
               <<"N","O","T","I","C","E">>,
               <<"E","X","C","E","P","T","I","O","N">> } :
        WordSearch(ln, kw)

\* Whether the loop counts the stripped line ln in scored_lines
ScoresLine(ln) ==
    /\ Len(ln) >= 15
    /\ (php_ts_pattern(ln) \/ iso_ts_pattern(ln) \/ syslog_ts_pattern(ln) \/ level_keywords(ln))

\* scored_lines, given the starts of lines[:20]
ScoredLines(text, first) ==
    Cardinality({i \in first : ScoresLine(Strip(LineAt(text, i)))})

\* fname.endswith((".log", ".txt", ".out", ".err")) of fname = filename.lower()
LogExtension(filename) ==
    \E ext \in { <<".","l","o","g">>, <<".","t","x","t">>, <<".","o","u","t">>, <<".","e","r","r">> } :
        /\ Len(filename) >= 4
        /\ From(Lower(filename), Len(filename) - 3) = ext

\* SniffVerdict accepting on any scoring line
SniffVerdictAnyScore(scored_lines, n, filename) == scored_lines >= 1

\* The three return tests after the loop; n is len(lines)
SniffVerdict(scored_lines, n, filename) ==
    \/ scored_lines >= 2
    \/ 10 * scored_lines >= 3 * (IF n < 20 THEN n ELSE 20)
    \/ (TruthyT(filename) /\ LogExtension(filename) /\ scored_lines >= 1)

\* The function from `lines = ...` on, given the starts of the non-blank lines
SniffLines(text, starts, filename) ==
    IF starts = {} THEN FALSE
    ELSE SniffVerdict(ScoredLines(text, FirstTwenty(starts)), Cardinality(starts), filename)

\* The function after the read, given the chunk and whether it is bytes
SniffChunk(chunk, binary, filename) ==
    IF chunk = <<>> THEN FALSE
    ELSE IF binary /\ 100 * Cardinality({i \in DOMAIN chunk : IsNonText(chunk[i])}) > 15 * Len(chunk)
    THEN FALSE
    ELSE SniffLines(IF binary THEN Decode(chunk) ELSE chunk,
                    NonBlankStarts(IF binary THEN Decode(chunk) ELSE chunk), filename)

\* The value is_probably_log(stream, filename, max_bytes) returns
is_probably_log(s, filename, max_bytes) ==
    SniffChunk(StreamRead(s, max_bytes), s.binary, filename)

\* The most calls of is_probably_log on one stream
MaxProbes == 2

\* The lines uploads are made of
FillerLine == <<"a","b","\n">>
IsoLine == <<"2","0","2","4","-","0","1","-","0","1"," ","1","0",":","0","0",":","0","0"," ","u","p","\n">>
KeywordLine == <<"a"," ","w","a","r","n","i","n","g"," ","h","a","p","p","e","n","e","d","\n">>
ShortKeywordLine == <<"e","r","r","o","r","\n">>
PlainLine == <<"n","o","t","h","i","n","g"," ","t","o"," ","s","e","e"," ","h","e","r","e","\n">>
PhpLine == <<"[","2","2","-","S","e","p","-","2","0","2","5"," ","1","4",":","5","3",":","3","5"," ","E","u","r","o","p","e","/","B","e","r","l","i","n","]"," ","x","\n">>
BsdLine == <<"N","o","v"," ","2","7"," ","1","5",":","3","0",":","4","5"," ","h","o","s","t","1","\n">>
BlankLine == <<" "," ","\n">>

\* n copies of the line l
Repeat(l, n) == [i \in 1..(n * Len(l)) |-> l[((i - 1) % Len(l)) + 1]]

\* An upload: f filler lines, the line h1, g filler lines, the line h2
Upload(f, h1, g, h2) == Repeat(FillerLine, f) \o h1 \o Repeat(FillerLine, g) \o h2
UploadHeads ==
    {<<>>, IsoLine, KeywordLine, ShortKeywordLine, PlainLine, PhpLine, BsdLine, BlankLine}
UploadTails == {<<>>, IsoLine, KeywordLine, PlainLine}
Uploads ==
    { Upload(f, h1, g, h2) : f \in {0, 19, 20}, h1 \in UploadHeads, g \in {0, 2}, h2 \in UploadTails }

\* Uploads led by k bytes that are not text: 7 of 49 bytes, or 8 of 50
ByteUploads ==
    { Repeat(<<b>>, k) \o IsoLine \o KeywordLine : b \in {"<00>", "<ff>"}, k \in {7, 8} }

\* The streams: bytes at the start or past the first three bytes, or text
UploadStreams ==
    { [data |-> d, pos |-> p, binary |-> TRUE] : d \in Uploads \cup ByteUploads, p \in {0, 3} }
    \cup { [data |-> d, pos |-> 0, binary |-> FALSE] : d \in ByteUploads }

\* The names of the uploaded files; NULL is no name
UploadNames == { NULL, <<"a","p","p",".","l","o","g">>, <<"A","P","P",".","T","X","T">>, <<"d","a","t","a",".","b","i","n">> }

\* A call of is_probably_log on the stream
CallIsProbablyLog ==
    /\ ops < MaxProbes
    /\ ops' = ops + 1
    /\ \E filename \in UploadNames, max_bytes \in {8192, 40} :
           /\ result' = [op |-> "is_probably_log", filename |-> filename,
                         max_bytes |-> max_bytes,
                         value |-> is_probably_log(stream, filename, max_bytes)]
           /\ stream' = Probed(stream, max_bytes)
    /\ UNCHANGED <<store, txn, pc, entry, line, count, error, before, schema>>

InitSniffer ==
    /\ store = <<>>
    /\ txn = <<>>
    /\ pc = "idle"
    /\ entry = "none"
    /\ line = <<>>
    /\ count = 0
    /\ error = "none"
    /\ result = NoResult
    /\ ops = 0
    /\ before = 0
    /\ stream \in UploadStreams
    /\ schema = ModelsSchema

NextSniffer == CallIsProbablyLog

SpecSniffer == InitSniffer /\ [][NextSniffer]_vars


(***************************************************************************)
(* src/web_app.py: upload_logs, the POST of a file to /upload-logs         *)
(***************************************************************************)
\* The most lines of an uploaded file
MaxUploadLines == 3

PhpWarningLine == <<"[","0","2","-","O","c","t","-","2","0","2","5"," ","1","5",":","5","9",":","4","0"," ","U","T","C","]"," ","P","H","P"," ","W","a","r","n","i","n","g",":"," ","x"," ","i","n"," ","/","a",".","p","h","p","\n">>

\* The kinds of line of the uploaded files
FormKinds == {IsoLine, KeywordLine, PlainLine, BlankLine, PhpWarningLine}

\* The sequences of at most MaxUploadLines kinds of line
FormKindSeqs == UNION { [1..n -> FormKinds] : n \in 0..MaxUploadLines }

\* The bytes of a file whose lines are ks
RECURSIVE FormData(_)
FormData(ks) == IF ks = <<>> THEN <<>> ELSE Head(ks) \o FormData(Tail(ks))

\* request.files["logfile"].stream of the uploads: bytes, at the start
FormStreams == { [data |-> FormData(ks), pos |-> 0, binary |-> TRUE] : ks \in FormKindSeqs }

\* file.filename of the uploads with a file selected; secure_filename leaves
\* each of these names as it is
FormNames == { <<"a","p","p",".","l","o","g">>, <<"A","P","P",".","T","X","T">>, <<"d","a","t","a",".","b","i","n">> }

\* source=f"upload:{filename}"
UploadSource(filename) ==
    CASE filename = <<"a","p","p",".","l","o","g">> -> "upload:app.log"
      [] filename = <<"A","P","P",".","T","X","T">> -> "upload:APP.TXT"
      [] OTHER                                      -> "upload:data.bin"

\* The source argument of ingest_plaintext_log: the one upload_logs passes
\* after its call r of the sniffer, or the default of a direct call
StreamSource(r) == IF r.op = "is_probably_log" THEN UploadSource(r.filename) ELSE "upload"

\* stream.seek(0)
Rewound(s) == [s EXCEPT !.pos = 0]

\* The stream after file.read(): the position is the end of the data
ReadToEnd(s) == [s EXCEPT !.pos = Len(s.data)]

\* The position of the last byte of the line that `for raw in stream` yields
\* next: the first "\n" past the position, or the end of the data
NextLineEnd(s) ==
    IF \E k \in (s.pos + 1)..Len(s.data) : s.data[k] = "\n"
    THEN CHOOSE k \in (s.pos + 1)..Len(s.data) :
             s.data[k] = "\n" /\ \A q \in (s.pos + 1)..(k - 1) : s.data[q] # "\n"
    ELSE Len(s.data)

\* `if not file or file.filename == ""`: the error response, nothing is read
UploadNoFile ==
    /\ pc = "idle"
    /\ pc' = "responded"
    /\ error' = "Nenhum arquivo selecionado."
    /\ UNCHANGED <<store, txn, entry, line, count, result, ops, before, stream, schema>>

\* models.is_probably_log(file.stream, filename=file.filename) on a selected
\* file; when it is false: file.stream.seek(0) and the error response
UploadSniff ==
    /\ pc = "idle"
    /\ \E filename \in FormNames :
           result' = [op |-> "is_probably_log", filename |-> filename, max_bytes |-> 8192,
                      value |-> is_probably_log(stream, filename, 8192)]
    /\ IF result'.value
       THEN /\ pc' = "accepted"
            /\ stream' = Probed(stream, 8192)
            /\ error' = error
       ELSE /\ pc' = "responded"
            /\ stream' = Rewound(Probed(stream, 8192))
            /\ error' = "O arquivo nao parece ser um log de texto."
    /\ UNCHANGED <<store, txn, entry, line, count, ops, before, schema>>

\* UploadSave without the seek(0) that follows the saving of the copy
UploadSaveNoRewind ==
    /\ pc = "accepted"
    /\ pc' = "loop"
    /\ entry' = "ingest_plaintext_log"
    /\ stream' = ReadToEnd(Rewound(stream))
    /\ txn' = <<>>
    /\ before' = Len(store)
    /\ UNCHANGED <<store, line, count, error, result, ops, schema>>

\* The accepted file: seek(0), the copy is written from file.read(), seek(0),
\* and ingest_plaintext_log is entered with the stream
UploadSave ==
    /\ pc = "accepted"
    /\ pc' = "loop"
    /\ entry' = "ingest_plaintext_log"
    /\ stream' = Rewound(ReadToEnd(Rewound(stream)))
    /\ txn' = <<>>
    /\ before' = Len(store)
    /\ UNCHANGED <<store, line, count, error, result, ops, schema>>

\* One turn of `for raw in stream` in ingest_plaintext_log: the line is
\* decoded and stripped, a blank line is skipped, any other line is inserted
UploadLine ==
    /\ pc = "loop"
    /\ entry = "ingest_plaintext_log"
    /\ stream.pos < Len(stream.data)
    /\ stream' = [stream EXCEPT !.pos = NextLineEnd(stream)]
    /\ line' = Strip(Decode(Slice(stream.data, stream.pos + 1, NextLineEnd(stream))))
    /\ IF line' = <<>>
       THEN txn' = txn
       ELSE \E utcnow \in Clock :
                txn' = InsertRow(txn, PlaintextRow(line', StreamSource(result),
                                                   HostAlias(entry), utcnow))
    /\ UNCHANGED <<store, pc, entry, count, error, result, ops, before, schema>>

\* The stream is exhausted: conn.commit(), conn.close(), the function returns
\* and upload_logs answers with the success response
UploadDone ==
    /\ pc = "loop"
    /\ entry = "ingest_plaintext_log"
    /\ stream.pos = Len(stream.data)
    /\ pc' = "responded"
    /\ store' = store \o txn
    /\ txn' = <<>>
    /\ error' = "none"
    /\ UNCHANGED <<entry, line, count, result, ops, before, stream, schema>>

InitUpload ==
    /\ store = <<>>
    /\ txn = <<>>
    /\ pc = "idle"
    /\ entry = "none"
    /\ line = <<>>
    /\ count = 0
    /\ error = "none"
    /\ result = NoResult
    /\ ops = 0
    /\ before = 0
    /\ stream \in FormStreams
    /\ schema = ModelsSchema

NextUpload == UploadNoFile \/ UploadSniff \/ UploadSave \/ UploadLine \/ UploadDone

SpecUpload == InitUpload /\ [][NextUpload]_vars

(***************************************************************************)
(* src/src/models.py: ingest_plaintext_log called on a stream of one line  *)
(* that holds two words, for the severity of the generic parser            *)
(***************************************************************************)
\* Words the lines are made of: severity keywords in several letter cases,
\* a word that only starts with a keyword, and a word that is none
SeverityWords ==
    { <<"e","r","r","o","r">>, <<"E","R","R","O","R">>, <<"c","r","i","t","i","c","a","l">>,
      <<"C","r","i","t","i","c","a","l">>, <<"w","a","r","n","i","n","g">>, <<"W","A","R","N">>,
      <<"n","o","t","i","c","e">>, <<"i","n","f","o">>, <<"e","r","r","o","r","s">>,
      <<"s","t","a","r","t","e","d">> }

\* The line "<w1> then <w2>"
SeverityLine(w1, w2) == w1 \o <<" ","t","h","e","n"," ">> \o w2 \o <<"\n">>

SeverityStreams ==
    { [data |-> SeverityLine(w1, w2), pos |-> 0, binary |-> b] :
          w1 \in SeverityWords, w2 \in SeverityWords, b \in BOOLEAN }

\* ingest_plaintext_log(stream) is entered: the connection is opened
CallIngestPlaintextLog ==
    /\ pc = "idle"
    /\ pc' = "loop"
    /\ entry' = "ingest_plaintext_log"
    /\ txn' = <<>>
    /\ before' = Len(store)
    /\ UNCHANGED <<store, line, count, error, result, ops, stream, schema>>

InitIngest ==
    /\ store = <<>>
    /\ txn = <<>>
    /\ pc = "idle"
    /\ entry = "none"
    /\ line = <<>>
    /\ count = 0
    /\ error = "none"
    /\ result = NoResult
    /\ ops = 0
    /\ before = 0
    /\ stream \in SeverityStreams
    /\ schema = ModelsSchema

NextIngest == CallIngestPlaintextLog \/ UploadLine \/ UploadDone

SpecIngest == InitIngest /\ [][NextIngest]_vars

(***************************************************************************)
(* src/cli.py cmd_init_db and src/models.py init_db on one database file,  *)
(* followed by insertions.  pc names the initializers that have run, in    *)
(* the order of their first run: "fresh", "cli", "models", "cli,models",   *)
(* "models,cli"                                                            *)
(***************************************************************************)
\* The most calls in one behaviour
MaxSchemaOps == 3

\* pc after the initializer who has run
RanAlso(p, who) ==
    IF p = "fresh" THEN who
    ELSE IF p = "cli" /\ who = "models" THEN "cli,models"
    ELSE IF p = "models" /\ who = "cli" THEN "models,cli"
    ELSE p

\* The columns the INSERT of insert_log and of ingest_plaintext_log names
ModelsInsertColumns ==
    {"timestamp", "source", "level", "host", "message",
     "cause_group", "cause_reason", "cause_action"}

\* The columns the INSERT of _insert_log names
CliInsertColumns == {"timestamp", "source", "level", "host", "message"}

\* What SQLite raises for an INSERT of row that names the columns named into
\* the table sch, or "none".  (source and level are strings in every call.)
InsertError(sch, named, row) ==
    IF sch.columns = {} THEN "OperationalError: no such table"
    ELSE IF ~(named \subseteq sch.columns) THEN "OperationalError: no such column"
    ELSE IF \E c \in sch.notnull :
                c \notin named \/ (c \in {"timestamp", "host", "message"} /\ row[c] = NULL)
    THEN "IntegrityError: NOT NULL constraint failed"
    ELSE "none"

\* The row as the table sch holds it: a column the INSERT did not name is NULL
StoredAs(sch, named, row) ==
    [c \in sch.columns \ {"id"} |-> IF c \in named THEN row[c] ELSE NULL]

\* An INSERT of row and the end of the call: the row is committed, or the
\* exception leaves the call with nothing stored
InsertCalled(op, named, row) ==
    /\ ops < MaxSchemaOps
    /\ ops' = ops + 1
    /\ result' = [op |-> op]
    /\ error' = InsertError(schema, named, row)
    /\ store' = IF InsertError(schema, named, row) = "none"
                THEN InsertRow(store, StoredAs(schema, named, row))
                ELSE store
    /\ UNCHANGED <<txn, pc, entry, line, count, before, stream, schema>>

\* cmd_init_db: CREATE TABLE IF NOT EXISTS logs with five NOT NULL columns
CmdInitDb ==
    /\ ops < MaxSchemaOps
    /\ ops' = ops + 1
    /\ pc' = RanAlso(pc, "cli")
    /\ schema' = IF schema.columns = {} THEN CliSchema ELSE schema
    /\ result' = [op |-> "cmd_init_db"]
    /\ error' = "none"
    /\ UNCHANGED <<store, txn, entry, line, count, before, stream>>

\* init_db: CREATE TABLE IF NOT EXISTS logs with the cause columns, then
\* CREATE INDEX IF NOT EXISTS of the two indexes
InitDb ==
    /\ ops < MaxSchemaOps
    /\ ops' = ops + 1
    /\ pc' = RanAlso(pc, "models")
    /\ schema' = [(IF schema.columns = {} THEN ModelsSchema ELSE schema)
                      EXCEPT !.indexes = @ \cup {"idx_logs_level_ts", "idx_logs_host_ts"}]
    /\ result' = [op |-> "init_db"]
    /\ error' = "none"
    /\ UNCHANGED <<store, txn, entry, line, count, before, stream>>

\* models.insert_log, as the action routes call it
CallInsertLog ==
    \E route \in ActionRoutes, utcnow \in Clock :
        InsertCalled("insert_log", ModelsInsertColumns, ActionRow(route, utcnow))

\* ingest_plaintext_log on a stream of one line
CallIngestOneLine ==
    \E raw \in {KeywordLine, PhpWarningLine}, utcnow \in Clock :
        InsertCalled("ingest_plaintext_log", ModelsInsertColumns,
                     PlaintextRow(Strip(raw), "upload", HostAlias("ingest_plaintext_log"), utcnow))

\* ingest_syslog_file on a file of one line: _insert_log and the commit
CallCliInsertLog ==
    \E raw \in {KeywordLine, BsdLine}, now \in Clock :
        InsertCalled("_insert_log", CliInsertColumns,
                     Row(now_str(now), "syslog", "INFO", HostAlias("ingest_syslog_file"),
                         RStripNL(raw), NULL, NULL, NULL))

InitSchema ==
    /\ store = <<>>
    /\ txn = <<>>
    /\ pc = "fresh"
    /\ entry = "none"
    /\ line = <<>>
    /\ count = 0
    /\ error = "none"
    /\ result = NoResult
    /\ ops = 0
    /\ before = 0
    /\ stream = NoStream
    /\ schema = NoTable

NextSchema == CmdInitDb \/ InitDb \/ CallInsertLog \/ CallIngestOneLine \/ CallCliInsertLog

SpecSchema == InitSchema /\ [][NextSchema]_vars

(***************************************************************************)
(* Properties                                                              *)
(***************************************************************************)
\* A step in which an ingestion loop reads one line and processes it; line' is
\* the line as the loop sees it
LineRead == pc = "loop" /\ ops' = ops + 1

\* Number of rows written so far, committed or pending on the connection
WrittenCount == Len(store) + Len(txn)

CausePresent(r) == r.cause_group # NULL /\ r.cause_reason # NULL /\ r.cause_action # NULL
CauseAbsent(r) == r.cause_group = NULL /\ r.cause_reason = NULL /\ r.cause_action = NULL

\* The row a step has just written
LastWritten ==
    IF Len(store') > Len(store) THEN store'[Len(store')] ELSE txn'[Len(txn')]

\* YYYY-MM-DD HH:MM:SS
CanonicalTimestamp(ts) ==
    /\ Len(ts) = 19
    /\ AllDigits(ts, 1, 4) /\ ts[5] = "-"
    /\ AllDigits(ts, 6, 7) /\ ts[8] = "-"
    /\ AllDigits(ts, 9, 10) /\ ts[11] = " "
    /\ TimeShapeAt(ts, 12)

\* C1: in every ingestion entry point a blank line (empty or only whitespace)
\* writes no record and raises no error: the rows are what they were before it.
C1_BlankLineWritesNothing ==
    [][(LineRead /\ Strip(line') = <<>>)
         => (store' = store /\ txn' = txn /\ pc' = "loop")]_vars

\* C2: in every ingestion entry point every line that is not blank results in
\* exactly one record.
C2_NonBlankLineOneRecord ==
    [][(LineRead /\ Strip(line') # <<>>) => WrittenCount' = WrittenCount + 1]_vars

\* C3: whatever a line contains, processing it does not raise: the loop goes on
\* to the lines after it.
C3_MalformedLineNeverAborts == [][LineRead => pc' = "loop"]_vars

\* C4: a file ingestor called on a file that does not exist raises the
\* not-found error and writes nothing: the persisted records are unchanged.
C4_NotFoundBeforeAnyWrite ==
    [][(pc # "loop" /\ pc' = "raised" /\ error' = "FileNotFoundError")
         => (store' = store /\ txn' = <<>>)]_vars

\* C4 witness: the not-found error was raised over a table that holds records
C4_Witness == pc = "raised" /\ error = "FileNotFoundError" /\ store # <<>>

\* C5: every persisted record has a non-empty timestamp, level, host and message.
C5_FieldsNonEmpty ==
    \A i \in DOMAIN store :
        /\ store[i].timestamp # <<>>
        /\ store[i].level # ""
        /\ store[i].host # <<>>
        /\ store[i].message # <<>>

\* C6: the three cause fields of a record are all present or all absent; they
\* are all present in the record of a line that matched the PHP error pattern
\* and all absent in the records of the syslog, Zabbix and generic parsers.
C6_CauseFieldsTogether ==
    [][/\ \A i \in DOMAIN store' : CausePresent(store'[i]) \/ CauseAbsent(store'[i])
       /\ \A i \in DOMAIN txn' : CausePresent(txn'[i]) \/ CauseAbsent(txn'[i])
       /\ (LineRead /\ WrittenCount' > WrittenCount)
            => IF entry = "ingest_plaintext_log" /\ php_error_pattern(line').matched
               THEN CausePresent(LastWritten)
               ELSE CauseAbsent(LastWritten)]_vars

\* C6 witness: the table holds the record of a PHP line, with its cause fields,
\* next to a record of another parser, without them
C6_Witness ==
    \E i, j \in DOMAIN store :
        /\ store[i].source = "upload:app.log" /\ CausePresent(store[i])
        /\ store[j].source = "upload:app.log" /\ CauseAbsent(store[j])

\* C7: the level of every persisted record is one of INFO, WARNING, WARN, ERROR,
\* CRITICAL, DEBUG.
C7_LevelInSet ==
    \A i \in DOMAIN store :
        store[i].level \in {"INFO", "WARNING", "WARN", "ERROR", "CRITICAL", "DEBUG"}

\* C7, with the level of the generic parser: the level of every persisted record is one of INFO, WARNING,
\* WARN, ERROR, CRITICAL, DEBUG, NOTICE (the generic parser stores NOTICE).
C7_LevelInSetOrNotice ==
    \A i \in DOMAIN store :
        store[i].level \in {"INFO", "WARNING", "WARN", "ERROR", "CRITICAL", "DEBUG", "NOTICE"}

\* C7 witness: a record of level NOTICE is persisted
C7_Witness == \E i \in DOMAIN store : store[i].level = "NOTICE"

\* C8: the timestamp of every persisted record has the shape YYYY-MM-DD HH:MM:SS.
C8_TimestampCanonical ==
    \A i \in DOMAIN store : CanonicalTimestamp(store[i].timestamp)

\* C9: records are append-only and immutable: every operation leaves the
\* persisted records in place with their values, and a query leaves the table
\* as it was.
C9_AppendOnly ==
    [][/\ Len(store') >= Len(store)
       /\ SubSeq(store', 1, Len(store)) = store
       /\ (pc # "loop" /\ ops' = ops + 1 /\ result' # NoResult) => store' = store]_vars

\* C9 witness: a query has returned over a table that holds records
C9_Witness == result # NoResult /\ pc = "idle" /\ store # <<>>

\* C10: every write is committed at once: when a pass is abandoned or fails,
\* every row it has inserted is in the table, in every entry point.
C10_EveryWriteCommitted ==
    [][(pc = "loop" /\ pc' = "raised") => store' = store \o txn]_vars

\* C10, per kind of pass: the passes that write through insert_log (ingest_syslog,
\* ingest_zabbix_server) commit every row at once, so that a pass abandoned or
\* failing after k accepted lines leaves those k records; ingest_plaintext_log
\* and the ingestors of the command line commit once, after the last line, so
\* that a pass abandoned or failing before that leaves none of its records.
C10_CommitPerRowOrPerPass ==
    [][/\ (pc = "loop" /\ entry \in {"ingest_syslog", "ingest_zabbix_server"})
            => (txn = <<>> /\ txn' = <<>>)
       /\ (LineRead /\ entry \in {"ingest_syslog", "ingest_zabbix_server"}
              /\ count' = count + 1)
            => Len(store') = Len(store) + 1
       /\ (pc = "loop" /\ entry \notin {"ingest_syslog", "ingest_zabbix_server"}
              /\ pc' # "returned")
            => store' = store
       /\ (pc = "loop" /\ pc' = "raised") => (store' = store /\ txn' = <<>>)
       /\ (pc = "loop" /\ pc' = "returned") => store' = store \o txn]_vars

\* C10 witness: a pass of the command line was abandoned after one accepted
\* line and the table holds none of its records
C10_Witness ==
    /\ pc = "raised" /\ error = "Interrupted"
    /\ entry = "ingest_syslog_file" /\ count = 1
    /\ store = <<>>

C12_MismatchGivesRawRecord ==
    (/\ pc = "called"
     /\ result.op \in {"parse_zabbix_server_line", "parse_zabbix_proxy_line"}
     /\ ~ZBX_SERVER_REGEX(RStripNL(line)).matched)
    => /\ result.value.kind = "record"
       /\ result.value.source =
              (IF result.op = "parse_zabbix_server_line"
               THEN "zabbix_server_raw" ELSE "zabbix_proxy_raw")
       /\ result.value.message = Strip(RStripNL(line))
       /\ result.value.host = result.host

\* C12 witness: the server parser was called on a daemon line with no colon
\* after the time and returned a raw record carrying the trimmed line
C12_Witness ==
    /\ pc = "called" /\ result.op = "parse_zabbix_server_line"
    /\ \E pid \in ZbxPids, date \in ZbxDates, time \in ZbxTimes, msg \in ZbxMessages :
           /\ line = DaemonLine(pid, date, time, <<".","1","0","0">>, <<" ">>, msg)
           /\ result.value.kind = "record"
           /\ result.value.source = "zabbix_server_raw"
           /\ result.value.message = RStripNL(line)


\* The timestamp text YYYY-MM-DD HH:MM:SS spelled by an 8-digit date and a
\* 6-digit time
StampOf(date, time) ==
    Slice(date, 1, 4) \o <<"-">> \o Slice(date, 5, 6) \o <<"-">> \o Slice(date, 7, 8)
    \o <<" ">> \o Slice(time, 1, 2) \o <<":">> \o Slice(time, 3, 4) \o <<":">> \o Slice(time, 5, 6)

\* C13: for Zabbix-daemon lines of the shape
\* "1234:20241127:153045.100 Starting Zabbix Server" (pid, 8-digit date, 6-digit
\* time with fractional part, then the message), parse_zabbix_server_line yields
\* the exact timestamp encoded in the line, level INFO when the message carries
\* no severity keyword, and source "zabbix_server".
C13_DaemonLineParsedExactly ==
    (pc = "called" /\ result.op = "parse_zabbix_server_line") =>
        \A pid \in ZbxPids, date \in ZbxDates, time \in ZbxTimes, msg \in ZbxMessages :
            line = DaemonLine(pid, date, time, <<".","1","0","0">>, <<" ">>, msg) =>
                /\ result.value.kind = "record"
                /\ result.value.timestamp = StampOf(date, time)
                /\ result.value.source = "zabbix_server"
                /\ (msg = <<"S","t","a","r","t","i","n","g"," ","Z","a","b","b","i","x"," ","S","e","r","v","e","r">>
                        => result.value.level = "INFO")

\* The year parse_syslog_line resolves in the call recorded in result: the
\* year argument, or the clock's year when none was supplied
ResolvedYear == IF result.year # 0 THEN result.year ELSE result.now.year

\* The timestamp text a syslog line of the catalogue spells in year y
SysStampOf(y, mon, day, time) ==
    Pad(y, 4) \o <<"-">> \o (IF mon = <<"N","o","v">> THEN <<"1","1">> ELSE <<"0","2">>)
    \o <<"-">> \o day \o <<" ">> \o time

\* The level the substring rules give each message of the catalogue
SysLevelOf(msg) ==
    CASE msg = <<"d","i","s","k"," ","e","r","r","o","r"," ","o","n"," ","s","d","a">> -> "ERROR"
      [] msg = <<"w","a","r","n",":"," ","l","o","w"," ","d","i","s","k">> -> "WARN"
      [] OTHER -> "INFO"

C15_NetworkCause ==
    (pc = "called" /\ result.op = "parse_php_error_line") =>
        \A php_level \in PhpNetLevels, ip \in PhpNetIps, port \in PhpNetPorts,
           reason \in PhpNetReasons, suffix \in PhpNetSuffixes :
            line = PhpNetLine(php_level, ip, port, reason, suffix) =>
                /\ result.value.kind = "record"
                /\ (php_level = <<"N","o","t","i","c","e">> => result.value.level = "WARNING")
                /\ result.value.cause_group = <<"n","e","t","w","o","r","k">>
                /\ Contains(result.value.cause_reason, ip \o <<":">> \o port)
                /\ Contains(result.value.cause_reason, reason)

\* C15 witness: the Notice line about 192.168.0.204 port 8443 was parsed into a
\* WARNING record of the network group naming the address and the reason
C15_Witness ==
    /\ pc = "called" /\ result.op = "parse_php_error_line"
    /\ line = PhpNetLine(<<"N","o","t","i","c","e">>, <<"1","9","2",".","1","6","8",".","0",".","2","0","4">>, <<"8","4","4","3">>, <<"C","o","n","n","e","c","t","i","o","n"," ","r","e","f","u","s","e","d">>, <<" ","i","n"," ","/","x",".","p","h","p">>)
    /\ result.value.level = "WARNING"
    /\ result.value.cause_group = <<"n","e","t","w","o","r","k">>
    /\ Contains(result.value.cause_reason, <<"1","9","2",".","1","6","8",".","0",".","2","0","4",":","8","4","4","3">>)
    /\ Contains(result.value.cause_reason, <<"C","o","n","n","e","c","t","i","o","n"," ","r","e","f","u","s","e","d">>)

\* C16: preset merge in _apply_preset: for each of level and contains, a value
\* the caller explicitly supplied (non-null) is kept, and the preset's value is
\* used only when the caller left that field unset; host, source, since, until
\* and all other arguments are never changed by a preset, and with no preset
\* the arguments are unchanged. E.g. explicit level=INFO with preset "email"
\* resolves to level=INFO, contains="failed to send email".
C16_ExplicitWinsPresetFills ==
    (pc = "called" /\ result.op = "_apply_preset") =>
        /\ \A f \in {"preset", "host", "source", "since", "until", "limit", "asc"} :
               result.value[f] = result.args[f]
        /\ \A f \in {"level", "contains"} :
               /\ result.args[f] # NoneS => result.value[f] = result.args[f]
               /\ result.value[f] # result.args[f] =>
                      /\ result.args.preset \in DOMAIN PRESETS
                      /\ f \in DOMAIN PRESETS[result.args.preset]
                      /\ result.value[f] = PRESETS[result.args.preset][f]
               /\ (/\ result.args[f] = NoneS
                   /\ result.args.preset \in DOMAIN PRESETS
                   /\ f \in DOMAIN PRESETS[result.args.preset])
                  => result.value[f] = PRESETS[result.args.preset][f]
        /\ result.args.preset = NoneS => result.value = result.args
        /\ (/\ result.args.preset = "email" /\ result.args.level = "INFO"
            /\ result.args.contains = NoneS)
           => (result.value.level = "INFO" /\ result.value.contains = "failed to send email")

\* C16 witness: level INFO was given with the preset email and no contains; the
\* level was kept and the preset's contains filled in
C16_Witness ==
    /\ pc = "called" /\ result.op = "_apply_preset"
    /\ result.args.preset = "email" /\ result.args.level = "INFO"
    /\ result.args.contains = NoneS
    /\ result.value.level = "INFO"
    /\ result.value.contains = "failed to send email"
    /\ result.value.host = result.args.host

\* Whether row r satisfies the conjunction of the criteria a that are given and
\* not empty: level, host and source equal, the message containing the text,
\* the timestamp within since and until
MeetsCriteria(r, a) ==
    /\ a.level \notin {NoneS, ""}   => r.level = a.level
    /\ a.contains \notin {NULL, <<>>} => Contains(r.message, a.contains)
    /\ a.host \notin {NULL, <<>>}     => r.host = a.host
    /\ a.source \notin {NoneS, ""}  => r.source = a.source
    /\ a.since \notin {NULL, <<>>}    => TextLeq(a.since, r.timestamp)
    /\ a.until \notin {NULL, <<>>}    => TextLeq(r.timestamp, a.until)

\* The lists made of the first limit rows with ids in match, by timestamp
\* ascending or descending, rows of one timestamp in any order
FirstByTimestamp(rows, match, asc, limit) ==
    { Limit([k \in DOMAIN f |-> Project(rows[f[k]])], limit) :
        f \in Orderings(match,
                        {p \in match \X match :
                            IF asc THEN TextLess(rows[p[1]].timestamp, rows[p[2]].timestamp)
                                   ELSE TextLess(rows[p[2]].timestamp, rows[p[1]].timestamp)}) }

\* C17: filter_logs returns exactly the first limit records, in the requested
\* timestamp order, of the stored records that satisfy the conjunction of every
\* supplied non-empty criterion (level equal, message containing the contains
\* text as a substring, host equal, source equal, timestamp >= since and
\* <= until); an absent or empty criterion imposes no constraint, and no
\* matching record yields an empty result.
C17_FilterLogsExact ==
    (pc = "called" /\ result.op = "filter_logs") =>
        result.value \in
            FirstByTimestamp(store,
                             {i \in DOMAIN store : MeetsCriteria(store[i], result.args)},
                             result.asc, result.limit)

\* The criteria of a top_errors call: level is "ERROR" when the caller gave none
TopErrorsCriteria(a) == [a EXCEPT !.level = IF a.level = NoneS THEN "ERROR" ELSE a.level]

\* Whether the list v of <<message, count>> is the first limit groups, by count
\* descending, of the rows with ids in match grouped by exact message
IsTopGroups(v, rows, match, limit) ==
    LET msgs == {rows[i].message : i \in match}
    IN  /\ Len(v) = IF limit < Cardinality(msgs) THEN limit ELSE Cardinality(msgs)
        /\ \A k \in DOMAIN v :
               /\ v[k][1] \in msgs
               /\ v[k][2] = Cardinality({i \in match : rows[i].message = v[k][1]})
        /\ \A j, k \in DOMAIN v : j < k => (v[j][1] # v[k][1] /\ v[j][2] >= v[k][2])
        /\ \A m \in msgs :
               (\A k \in DOMAIN v : v[k][1] # m) =>
                   \A k \in DOMAIN v :
                       v[k][2] >= Cardinality({i \in match : rows[i].message = m})

\* C18: top_errors returns at most limit groups over the records matching the
\* filter conjunction (level defaulting to ERROR when the caller does not
\* specify one), one group per distinct exact message text with count equal to
\* the number of matching records having that message, ordered by count
\* descending; so for three stored ERROR records with identical message and one
\* with a different message, limit=1 returns exactly the repeated message with
\* count 3.
C18_TopErrorsGroups ==
    (pc = "called" /\ result.op = "top_errors") =>
        IsTopGroups(result.value, store,
                    {i \in DOMAIN store : MeetsCriteria(store[i], TopErrorsCriteria(result.args))},
                    result.limit)

\* C19: is_probably_log is idempotent and non-consuming: for every stream and
\* starting position, the stream position after the call equals the position
\* before it, and a second call on the same stream with the same filename (and
\* the same max_bytes) returns the same boolean as the first.
C19_NonConsumingIdempotent ==
    [][(ops' = ops + 1 /\ result'.op = "is_probably_log") =>
          /\ stream'.pos = stream.pos
          /\ stream'.data = stream.data
          /\ (/\ result.op = "is_probably_log"
              /\ result.filename = result'.filename
              /\ result.max_bytes = result'.max_bytes)
             => result'.value = result.value]_vars

\* C19 witness: a stream that stood at position 3 was probed twice, each call
\* reading 40 bytes of a longer content, and still stands at position 3
C19_Witness ==
    /\ ops = 2 /\ result.op = "is_probably_log"
    /\ result.max_bytes = 40 /\ Len(stream.data) > 43
    /\ stream.pos = 3
    /\ result.value = TRUE

\* Whether a line of the catalogue is a non-blank line, and whether it scores:
\* at least 15 characters and a timestamp shape or a severity word
IsNonBlankKind(h) == h \notin {<<>>, BlankLine}
IsScoringKind(h) == h \in {IsoLine, KeywordLine, PhpLine, BsdLine}

\* The number of non-blank lines of Upload(f, h1, g, h2)
UploadLines(f, h1, g, h2) ==
    f + (IF IsNonBlankKind(h1) THEN 1 ELSE 0) + g + (IF IsNonBlankKind(h2) THEN 1 ELSE 0)

\* The number of scoring lines among the first 20 non-blank lines of
\* Upload(f, h1, g, h2): h1 is line f + 1 and h2 is the last line
UploadScored(f, h1, g, h2) ==
    (IF IsScoringKind(h1) /\ f + 1 <= 20 THEN 1 ELSE 0)
    + (IF IsScoringKind(h2) /\ UploadLines(f, h1, g, h2) <= 20 THEN 1 ELSE 0)

\* The acceptance rule on scored, the number n of non-blank lines and whether
\* the filename ends in .log, .txt, .out or .err (letter case ignored)
Accepted(scored, n, ext) ==
    /\ n >= 1
    /\ \/ scored >= 2
       \/ 10 * scored >= 3 * (IF n < 20 THEN n ELSE 20)
       \/ (ext /\ scored >= 1)

\* C20: is_probably_log accepts a non-empty, non-binary prefix with at least
\* one non-blank line if and only if, with scored the number of scoring lines
\* among the first 20 non-blank lines and considered = min(number of non-blank
\* lines, 20): scored >= 2, or scored / considered >= 0.3, or (the filename
\* ends in .log, .txt, .out or .err and scored >= 1); it rejects empty input,
\* input with no non-blank line, and byte input whose share of bytes 0x00-0x08
\* or above 0x7E exceeds 15 percent.
C20_AcceptanceRule ==
    (/\ result.op = "is_probably_log" /\ result.max_bytes = 8192
     /\ stream.pos = 0 /\ stream.binary) =>
        /\ \A f \in {0, 19, 20}, h1 \in UploadHeads, g \in {0, 2}, h2 \in UploadTails :
               stream.data = Upload(f, h1, g, h2) =>
                   result.value =
                       Accepted(UploadScored(f, h1, g, h2), UploadLines(f, h1, g, h2),
                                result.filename \in {<<"a","p","p",".","l","o","g">>, <<"A","P","P",".","T","X","T">>})
        /\ \A b \in {"<00>", "<ff>"} :
               stream.data = Repeat(<<b>>, 8) \o IsoLine \o KeywordLine => result.value = FALSE
        /\ stream.data = <<>> => result.value = FALSE

\* C20 witness: twenty non-blank lines of which only the last scores were
\* accepted on the strength of the name app.log
C20_Witness ==
    /\ result.op = "is_probably_log" /\ result.max_bytes = 8192
    /\ stream.pos = 0 /\ stream.binary
    /\ stream.data = Upload(19, IsoLine, 0, <<>>)
    /\ result.filename = <<"a","p","p",".","l","o","g">>
    /\ result.value = TRUE

\* The message ingest_plaintext_log stores for a line of each kind
KindMessage(k) ==
    CASE k = IsoLine        -> <<"u","p">>
      [] k = KeywordLine    -> <<"a"," ","w","a","r","n","i","n","g"," ","h","a","p","p","e","n","e","d">>
      [] k = PlainLine      -> <<"n","o","t","h","i","n","g"," ","t","o"," ","s","e","e"," ","h","e","r","e">>
      [] k = PhpWarningLine -> <<"x"," ","i","n"," ","/","a",".","p","h","p">>
      [] OTHER              -> <<>>

\* The messages of the non-blank lines of a file whose lines are ks, in order
NonBlankMessages(ks) ==
    [i \in DOMAIN SelectSeq(ks, IsNonBlankKind) |-> KindMessage(SelectSeq(ks, IsNonBlankKind)[i])]

\* The messages of the rows, in order
MessagesOf(rows) == [i \in DOMAIN rows |-> rows[i].message]

\* A step that persists rows or puts a row on the ingesting connection
Persists == store' # store \/ Len(txn') > Len(txn)

\* C21: in the upload flow rows are persisted only once is_probably_log has
\* accepted the file; the response to an upload with no file or with a file
\* the sniffer rejects leaves the store as it was; and when an accepted upload
\* has been answered, the store holds one row for every non-blank line of the
\* file from its first byte on, in the order of the file, the lines the
\* sniffer read included.
C21_SnifferGatesIngestion ==
    /\ [][Persists => (result.op = "is_probably_log" /\ result.value)]_vars
    /\ [][(pc' = "responded" /\ error' # "none") => (store' = store /\ txn' = txn)]_vars
    /\ [](pc = "responded" /\ error = "none" =>
             \A ks \in FormKindSeqs :
                 stream.data = FormData(ks) => MessagesOf(store) = NonBlankMessages(ks))

\* An accepted upload of three lines, all inside the prefix the sniffer read,
\* has been answered and its three rows are stored
C21_Witness ==
    /\ pc = "responded"
    /\ error = "none"
    /\ result.op = "is_probably_log"
    /\ result.value
    /\ Len(stream.data) <= 8192
    /\ Len(store) = 3
    /\ store[1].message = <<"u","p">>

\* The severity keyword a word of SeverityWords is, or "none"
KeywordOf(w) ==
    CASE Upper(w) = <<"E","R","R","O","R">>                 -> "ERROR"
      [] Upper(w) = <<"C","R","I","T","I","C","A","L">>     -> "CRITICAL"
      [] Upper(w) \in { <<"W","A","R","N">>, <<"W","A","R","N","I","N","G">> } -> "WARNING"
      [] Upper(w) = <<"N","O","T","I","C","E">>             -> "NOTICE"
      [] Upper(w) = <<"I","N","F","O">>                     -> "INFO"
      [] OTHER                                              -> "none"

\* The level of the first keyword of the order that is among present, or INFO
HighestOf(order, present) ==
    IF \E i \in DOMAIN order : order[i] \in present
    THEN order[CHOOSE i \in DOMAIN order :
                   order[i] \in present /\ \A j \in 1..(i - 1) : order[j] \notin present]
    ELSE "INFO"

\* C22: the generic parser of ingest_plaintext_log gives a line the level of
\* the highest keyword present as a whole word, letter case ignored, in the
\* priority order ERROR > CRITICAL > WARNING > NOTICE > INFO, and INFO when
\* no keyword is present.
C22_LevelByClaimedPriority ==
    (pc = "responded" /\ Len(store) = 1) =>
        \A w1 \in SeverityWords, w2 \in SeverityWords :
            stream.data = SeverityLine(w1, w2) =>
                store[1].level = HighestOf(<<"ERROR", "CRITICAL", "WARNING", "NOTICE", "INFO">>,
                                           {KeywordOf(w1), KeywordOf(w2)})

\* The text of PhpInLine(head, sep, tail) after "PHP Warning: "
PhpInRest(head, sep, tail) == head \o sep \o tail

\* The text before the " in " of the tail "/a.php in frame 2"
PhpInTailCut == <<"/","a",".","p","h","p">>

\* msg_main of PhpInLine(head, sep, tail) when sep cuts exactly if cuts: head
\* when sep cuts, else the text before the " in " of the tail, else the rest
PhpInMain(head, sep, tail, cuts) ==
    IF cuts THEN head
    ELSE IF tail = PhpInTailCut \o <<" ","i","n"," ","f","r","a","m","e"," ","2">> THEN head \o sep \o PhpInTailCut
    ELSE PhpInRest(head, sep, tail)

\* C23: in PHP cause inference msg_main is the text before the first " in "
\* matched case-sensitively (" IN " or " In " does not cut), or the whole text
\* when " in " is absent; the stored message is the full rest; and the
\* cause_reason of a record without an IP/port pair equals msg_main.
C23_MsgMainCaseSensitive ==
    (pc = "called" /\ result.op = "parse_php_error_line") =>
        \A head \in PhpInHeads, sep \in PhpInSeps, tail \in PhpInTails :
            line = PhpInLine(head, sep, tail) =>
                /\ result.value.kind = "record"
                /\ result.value.message = PhpInRest(head, sep, tail)
                /\ result.value.cause_reason = PhpInMain(head, sep, tail, sep = <<" ","i","n"," ">>)

\* C23 as the code has it: msg_main is the stripped text before the first
\* " in " matched in any letter case (" IN " and " In " cut too), or the whole
\* text when there is none; the stored message is the full rest; and the
\* cause_reason of a record without an IP/port pair equals msg_main, in the
\* group network for a cURL error and aplicacao otherwise.
C23_MsgMainAnyCase ==
    (pc = "called" /\ result.op = "parse_php_error_line") =>
        \A head \in PhpInHeads, sep \in PhpInSeps, tail \in PhpInTails :
            line = PhpInLine(head, sep, tail) =>
                /\ result.value.kind = "record"
                /\ result.value.message = PhpInRest(head, sep, tail)
                /\ result.value.cause_reason = PhpInMain(head, sep, tail, Lower(sep) = <<" ","i","n"," ">>)
                /\ result.value.cause_group =
                       (IF head = <<"c","U","R","L"," ","e","r","r","o","r"," ","2","8">>
                        THEN <<"n","e","t","w","o","r","k">>
                        ELSE <<"a","p","l","i","c","a","c","a","o">>)

\* C23 witness: "Undefined variable IN /a.php in frame 2" was parsed; the cause
\* is the text before " IN " and the message is the whole text
C23_Witness ==
    /\ pc = "called" /\ result.op = "parse_php_error_line"
    /\ line = PhpInLine(<<"U","n","d","e","f","i","n","e","d"," ","v","a","r","i","a","b","l","e">>, <<" ","I","N"," ">>, <<"/","a",".","p","h","p"," ","i","n"," ","f","r","a","m","e"," ","2">>)
    /\ result.value.cause_reason = <<"U","n","d","e","f","i","n","e","d"," ","v","a","r","i","a","b","l","e">>
    /\ result.value.message = <<"U","n","d","e","f","i","n","e","d"," ","v","a","r","i","a","b","l","e"," ","I","N"," ","/","a",".","p","h","p"," ","i","n"," ","f","r","a","m","e"," ","2">>

\* A step that is a call of one of the three insertion paths
InsertionStep ==
    ops' = ops + 1 /\ result'.op \in {"insert_log", "ingest_plaintext_log", "_insert_log"}

\* C24: once cmd_init_db and init_db have both run on the database file, in
\* either order, every insertion through insert_log, ingest_plaintext_log or
\* _insert_log succeeds.
C24_InsertionsSucceed ==
    [][(pc \in {"cli,models", "models,cli"} /\ InsertionStep) => error' = "none"]_vars
====
